---- MODULE Spec2Model ----
(***************************************************************************)
(* Model of the tracking engine of the Simulated Missile Tracking System:  *)
(* tracking/tracker.py (Track, ObjectTracker), the frame loop of main.py   *)
(* and the hand-off to ui/terminal_ui.py.                                  *)
(*                                                                         *)
(* Conventions.                                                            *)
(*  - Python lists are 0-based, the sequences here are 1-based: index i of *)
(*    the model is index i-1 of the code.                                  *)
(*  - A bounding box is <<x1, y1, x2, y2>> in integer pixels.              *)
(*  - An IoU value is the exact fraction <<intersection, union>>; 0.0 is   *)
(*    <<0, 1>>.  Comparisons cross-multiply.                               *)
(*  - A Python list object that is mutated in place (Track.history) lives  *)
(*    in the heap `lists`; whoever holds the list holds its address.       *)
(*  - time.time() is the number of the frame being processed.              *)
(*  - A KalmanFilter is followed exactly from its construction through   *)
(*    its predict steps.  The fractions of a measurement update outgrow    *)
(*    the integers of TLC after the second update, so an updated filter    *)
(*    is `Filtered`: some state nothing is known about.  No branch of      *)
(*    ObjectTracker.update or _associate_detections_to_tracks reads it.    *)
(*  - The 'timestamp' of a history entry is left out of the lifecycle      *)
(*    model; the predictor is given histories with timestamps.            *)
(***************************************************************************)
EXTENDS Integers, Sequences, FiniteSets, TLC

VARIABLES
    tracks,              \* ObjectTracker.tracks: sequence of Track records
    next_id,             \* ObjectTracker.next_id
    lists,               \* heap: address -> contents of a Track.history list
    frame,               \* MissileTrackingSystem.current_frame
    pc,                  \* position of the frame loop of main.py
    tracked_objects,     \* value returned by the last tracker.update
    ui_tracked_objects,  \* TerminalUI.tracked_objects
    call,                \* locals of the last ObjectTracker.update call
    predictions,         \* mapping returned by the last process_frame
    ui_predictions,      \* TerminalUI.predictions
    quiet_calls,         \* history: the last update calls without detections
    query                \* one call of a function: arguments, then results

vars == <<tracks, next_id, lists, frame, pc, tracked_objects,
          ui_tracked_objects, call, predictions, ui_predictions, query,
         quiet_calls>>

\* ------------------------------------------------------------ bounds

\* Frames processed under Spec (any detection sequence per frame).
MaxFrames == 3

\* Frames processed under SpecLong (one object appearing and disappearing).
MaxFramesLong == 33

\* Detections per frame.
MaxDets == 2

\* Largest corner coordinate of the boxes given to _calculate_iou.
MaxCoord == 3

\* Longest history of a snapshot given to predict_trajectory.
MaxHistory == 6

\* Successive measurement updates given to one track.
MaxUpdates == 32

\* ------------------------------------------------- program constants

max_age == 30

min_hits == 3

\* iou_threshold = 0.3, as the fraction IouThresholdNum / IouThresholdDen.
IouThresholdNum == 3

IouThresholdDen == 10

\* Track.update keeps the last 30 history entries.
HistoryCap == 30

\* TrajectoryPredictor.min_history_points
min_history_points == 5

\* TrajectoryPredictor.frame_bounds
frame_width == 1280

frame_height == 720

\* 1e-6, the magnitude below which a velocity counts as no movement, as the
\* fraction EpsNum / EpsDen.
EpsNum == 1

EpsDen == 1000000

\* t = 2.0, the extrapolation when no boundary is crossed
ExtrapolationTime == 2

\* TrajectoryPredictor.prediction_time, in seconds
prediction_time == 5

\* The forecast step 0.1 s: StepsPerSecond steps make a second.
StepsPerSecond == 10

\* 'confidence': 0.8 of the constant-velocity forecast, as a fraction
KalmanConfidenceNum == 4

KalmanConfidenceDen == 5

\* _linear_prediction needs 3 positions
MinLinearPoints == 3

\* ------------------------------------------------------- detections

\* A detection as the detector builds it: the center is the bbox midpoint.
MkDetection(bbox, confidence) ==
    [bbox       |-> bbox,
     confidence |-> confidence,
     class_id   |-> 0,
     center     |-> <<(bbox[1] + bbox[3]) \div 2, (bbox[2] + bbox[4]) \div 2>>]

\* An object, the same object moved by 4 pixels (IoU 2/3 with DetA), a
\* sliver of it (IoU exactly 3/10 with DetA), and a far object (IoU 0).
DetA == MkDetection(<<0, 0, 20, 20>>, 80)

DetA2 == MkDetection(<<4, 0, 24, 20>>, 70)

DetA3 == MkDetection(<<0, 0, 6, 20>>, 60)

DetB == MkDetection(<<40, 30, 60, 50>>, 90)

Detections == {DetA, DetA2, DetA3, DetB}

\* The detection sequences of one frame: every set of at most MaxDets
\* detections, listed once (by decreasing confidence).
DetSeqs ==
    {s \in UNION {[1..n -> Detections] : n \in 0..MaxDets} :
        \A i, j \in DOMAIN s : i < j => s[i].confidence > s[j].confidence}

\* The frames of SpecLong: the object is seen or it is not.
LongDetSeqs == {<<>>, <<DetA>>}

\* ------------------------------------------------------- fractions

RECURSIVE GCD(_, _)
GCD(a, b) == IF b = 0 THEN a ELSE GCD(b, a % b)

Abs(n) == IF n < 0 THEN -n ELSE n

\* The fraction q in lowest terms, denominator positive.
RatNorm(q) ==
    LET g == GCD(Abs(q[1]), q[2])
    IN  IF q[1] = 0 THEN <<0, 1>> ELSE <<q[1] \div g, q[2] \div g>>

RatAdd(p, q) == RatNorm(<<p[1] * q[2] + q[1] * p[2], p[2] * q[2]>>)

RatNeg(q) == <<-q[1], q[2]>>

RatLeq(p, q) == p[1] * q[2] <= q[1] * p[2]

RatLess(p, q) == p[1] * q[2] < q[1] * p[2]

RatEq(p, q) == p[1] * q[2] = q[1] * p[2]

\* p * q, cancelling across before multiplying.
RatMul(p, q) ==
    IF p[1] = 0 \/ q[1] = 0 THEN <<0, 1>>
    ELSE LET g1 == GCD(Abs(p[1]), q[2])
             g2 == GCD(Abs(q[1]), p[2])
         IN  <<(p[1] \div g1) * (q[1] \div g2), (p[2] \div g2) * (q[2] \div g1)>>

\* 1 / q for q # 0
RatInv(q) == IF q[1] < 0 THEN <<-q[2], -q[1]>> ELSE <<q[2], q[1]>>

RatDiv(p, q) == RatMul(p, RatInv(q))

RatSub(p, q) == RatAdd(p, RatNeg(q))

RatAbs(q) == <<Abs(q[1]), q[2]>>

\* The integer n as a fraction.
Int2Rat(n) == <<n, 1>>

\* float('inf')
Infinity == <<1, 0>>

\* A value that is the square root of a fraction that is not a square; it
\* is not computed.
Irrational == <<0, 0>>

\* The largest integer in lo..hi whose square is at most n.
RECURSIVE ISqrtIn(_, _, _)
ISqrtIn(n, lo, hi) ==
    IF lo = hi THEN lo
    ELSE LET mid == (lo + hi + 1) \div 2
         IN  IF mid * mid <= n THEN ISqrtIn(n, mid, hi)
             ELSE ISqrtIn(n, lo, mid - 1)

\* 46340 is the largest integer whose square TLC can hold.
ISqrt(n) == ISqrtIn(n, 0, IF n < 46340 THEN n ELSE 46340)

\* np.sqrt(q) for q >= 0: the root when q is the square of a fraction.
RatSqrt(q) ==
    LET p == RatNorm(q)
        a == ISqrt(p[1])
        b == ISqrt(p[2])
    IN  IF a * a = p[1] /\ b * b = p[2] THEN <<a, b>> ELSE Irrational

\* The sum of a sequence of fractions.
RECURSIVE RatSum(_)
RatSum(s) == IF s = <<>> THEN <<0, 1>> ELSE RatAdd(Head(s), RatSum(Tail(s)))

Min(a, b) == IF a <= b THEN a ELSE b

Max(a, b) == IF a >= b THEN a ELSE b

\* ------------------------------------------------------------- IoU

\* Without the early return for boxes that do not overlap.
calculate_iou_NoEarlyReturn(bbox1, bbox2) ==
    LET x1_i == Max(bbox1[1], bbox2[1])
        y1_i == Max(bbox1[2], bbox2[2])
        x2_i == Min(bbox1[3], bbox2[3])
        y2_i == Min(bbox1[4], bbox2[4])
        intersection == (x2_i - x1_i) * (y2_i - y1_i)
        area1 == (bbox1[3] - bbox1[1]) * (bbox1[4] - bbox1[2])
        area2 == (bbox2[3] - bbox2[1]) * (bbox2[4] - bbox2[2])
        union == area1 + area2 - intersection
    IN  IF union > 0 THEN <<intersection, union>>
        ELSE <<0, 1>>

\* ObjectTracker._calculate_iou
calculate_iou(bbox1, bbox2) ==
    LET x1_i == Max(bbox1[1], bbox2[1])
        y1_i == Max(bbox1[2], bbox2[2])
        x2_i == Min(bbox1[3], bbox2[3])
        y2_i == Min(bbox1[4], bbox2[4])
        intersection == (x2_i - x1_i) * (y2_i - y1_i)
        area1 == (bbox1[3] - bbox1[1]) * (bbox1[4] - bbox1[2])
        area2 == (bbox2[3] - bbox2[1]) * (bbox2[4] - bbox2[2])
        union == area1 + area2 - intersection
    IN  IF x2_i <= x1_i \/ y2_i <= y1_i THEN <<0, 1>>
        ELSE IF union > 0 THEN <<intersection, union>>
        ELSE <<0, 1>>

\* ------------------------------------------------------ assignment

\* The complete assignments of the smaller side of an n x m matrix, each a
\* set of <<row, column>> pairs.
Assignments(n, m) ==
    IF n <= m
    THEN {{<<t, f[t]>> : t \in 1..n} :
            f \in {g \in [1..n -> 1..m] :
                    \A i, j \in 1..n : i # j => g[i] # g[j]}}
    ELSE {{<<f[d], d>> : d \in 1..m} :
            f \in {g \in [1..m -> 1..n] :
                    \A i, j \in 1..m : i # j => g[i] # g[j]}}

RECURSIVE Total(_, _)
Total(matrix, a) ==
    IF a = {} THEN <<0, 1>>
    ELSE LET p == CHOOSE q \in a : TRUE
         IN  RatAdd(matrix[p[1]][p[2]], Total(matrix, a \ {p}))

\* scipy.optimize.linear_sum_assignment by its contract: a complete
\* assignment of the smaller side of minimum total cost.  Which of several
\* minimum-cost assignments it returns is left open.
linear_sum_assignment(cost) ==
    LET all == Assignments(Len(cost), Len(cost[1]))
    IN  {a \in all : \A b \in all : RatLeq(Total(cost, a), Total(cost, b))}

\* The matrix the solver is given without the sign change.
SolveAssignment_NoNegation(iou_matrix) == linear_sum_assignment(iou_matrix)

\* linear_sum_assignment(-iou_matrix)
SolveAssignment(iou_matrix) ==
    linear_sum_assignment(
        [t \in DOMAIN iou_matrix |->
            [d \in DOMAIN iou_matrix[t] |-> RatNeg(iou_matrix[t][d])]])

\* A pair at the threshold is accepted.
AcceptPair_AtThreshold(iou) ==
    RatLeq(<<IouThresholdNum, IouThresholdDen>>, iou)

\* iou_matrix[t, d] > self.iou_threshold
AcceptPair(iou) == RatLess(<<IouThresholdNum, IouThresholdDen>>, iou)

\* [d for d in range(len(detections)) if d not in matched_indices[1]]
UnmatchedDetections(n_detections, matched_indices, matched_tracks) ==
    {d \in 1..n_detections : \A p \in matched_indices : p[2] # d}

\* The box of a track moved to where its filter stands, when that is known.
KinematicBox(track) ==
    IF Len(track.kalman.state) = 0 THEN track.bbox
    ELSE LET half_w == (track.bbox[3] - track.bbox[1]) \div 2
             half_h == (track.bbox[4] - track.bbox[2]) \div 2
             x == track.kalman.state[1]
             y == track.kalman.state[2]
         IN  <<x - half_w, y - half_h, x + half_w, y + half_h>>

\* The association compares the detections with the kinematically moved
\* boxes of the tracks.
associate_detections_to_tracks_Kinematic(dets, predicted_tracks) ==
    IF Len(predicted_tracks) = 0
    THEN {[iou_matrix           |-> <<>>,
           matched_indices      |-> {},
           matched_tracks       |-> {},
           unmatched_detections |-> 1..Len(dets),
           unmatched_tracks     |-> {}]}
    ELSE IF Len(dets) = 0
    THEN {[iou_matrix           |-> <<>>,
           matched_indices      |-> {},
           matched_tracks       |-> {},
           unmatched_detections |-> {},
           unmatched_tracks     |-> 1..Len(predicted_tracks)]}
    ELSE LET iou_matrix ==
                [t \in 1..Len(predicted_tracks) |->
                    [d \in 1..Len(dets) |->
                        calculate_iou(KinematicBox(predicted_tracks[t]),
                                      dets[d].bbox)]]
         IN  {LET matched_tracks ==
                    {p \in a : AcceptPair(iou_matrix[p[1]][p[2]])}
              IN  [iou_matrix           |-> iou_matrix,
                   matched_indices      |-> a,
                   matched_tracks       |-> matched_tracks,
                   unmatched_detections |->
                       UnmatchedDetections(Len(dets), a, matched_tracks),
                   unmatched_tracks     |->
                       {t \in 1..Len(predicted_tracks) :
                           \A p \in a : p[1] # t}]
              : a \in SolveAssignment(iou_matrix)}

\* ObjectTracker._associate_detections_to_tracks: the results the call can
\* return, one per assignment the solver can return.  (The else branch of
\* `min(iou_matrix.shape) > 0` is unreachable: both lists are non-empty.)
associate_detections_to_tracks(dets, predicted_tracks) ==
    IF Len(predicted_tracks) = 0
    THEN {[iou_matrix           |-> <<>>,
           matched_indices      |-> {},
           matched_tracks       |-> {},
           unmatched_detections |-> 1..Len(dets),
           unmatched_tracks     |-> {}]}
    ELSE IF Len(dets) = 0
    THEN {[iou_matrix           |-> <<>>,
           matched_indices      |-> {},
           matched_tracks       |-> {},
           unmatched_detections |-> {},
           unmatched_tracks     |-> 1..Len(predicted_tracks)]}
    ELSE LET iou_matrix ==
                [t \in 1..Len(predicted_tracks) |->
                    [d \in 1..Len(dets) |->
                        calculate_iou(predicted_tracks[t].bbox, dets[d].bbox)]]
         IN  {LET matched_tracks ==
                    {p \in a : AcceptPair(iou_matrix[p[1]][p[2]])}
              IN  [iou_matrix           |-> iou_matrix,
                   matched_indices      |-> a,
                   matched_tracks       |-> matched_tracks,
                   unmatched_detections |->
                       UnmatchedDetections(Len(dets), a, matched_tracks),
                   unmatched_tracks     |->
                       {t \in 1..Len(predicted_tracks) :
                           \A p \in a : p[1] # t}]
              : a \in SolveAssignment(iou_matrix)}

\* ---------------------------------------------------- KalmanFilter

\* np.eye(4) * 1000
InitialCovariance == 1000

\* Covariance entries are counted in tenths: Q = np.eye(4) * 0.1 is the
\* identity in that unit.
CovUnit == 10

Identity4 ==
    [i \in 1..4 |-> [j \in 1..4 |-> IF i = j THEN 1 ELSE 0]]

\* KalmanFilter.F, the constant-velocity transition with a unit time step
KalmanF ==
    <<<<1, 0, 1, 0>>,
      <<0, 1, 0, 1>>,
      <<0, 0, 1, 0>>,
      <<0, 0, 0, 1>>>>

MatMul4(A, B) ==
    [i \in 1..4 |-> [j \in 1..4 |->
        A[i][1] * B[1][j] + A[i][2] * B[2][j]
            + A[i][3] * B[3][j] + A[i][4] * B[4][j]]]

Transpose4(A) == [i \in 1..4 |-> [j \in 1..4 |-> A[j][i]]]

MatAdd4(A, B) == [i \in 1..4 |-> [j \in 1..4 |-> A[i][j] + B[i][j]]]

\* The state of a filter after a measurement update: a vector (and a matrix)
\* without known entries.
Filtered == <<>>

\* KalmanFilter.__init__
KalmanFilter_init(initial_state) ==
    [state      |-> initial_state,
     covariance |-> [i \in 1..4 |-> [j \in 1..4 |->
                        Identity4[i][j] * InitialCovariance * CovUnit]]]

\* KalmanFilter.predict: state = F @ state, P = F @ P @ F.T + Q
KalmanFilter_predict(kalman) ==
    IF kalman.state = Filtered THEN kalman
    ELSE [state      |-> [i \in 1..4 |->
                            KalmanF[i][1] * kalman.state[1]
                                + KalmanF[i][2] * kalman.state[2]
                                + KalmanF[i][3] * kalman.state[3]
                                + KalmanF[i][4] * kalman.state[4]],
          covariance |-> MatAdd4(MatMul4(MatMul4(KalmanF, kalman.covariance),
                                         Transpose4(KalmanF)),
                                 Identity4)]

\* KalmanFilter.update
KalmanFilter_update(kalman, measurement) ==
    [state |-> Filtered, covariance |-> Filtered]

\* [self.kalman.state[0], self.kalman.state[1]]
KalmanPosition(kalman) ==
    IF kalman.state = Filtered THEN Filtered
    ELSE <<kalman.state[1], kalman.state[2]>>

\* [self.kalman.state[2], self.kalman.state[3]]
KalmanVelocity(kalman) ==
    IF kalman.state = Filtered THEN Filtered
    ELSE <<kalman.state[3], kalman.state[4]>>

\* ----------------------------------------------------------- Track

\* The creating detection is not counted as a hit.
Track_init_ZeroHits(detection, track_id, now) ==
    [id                |-> track_id,
     kalman            |-> KalmanFilter_init(
                              <<detection.center[1], detection.center[2], 0, 0>>),
     age               |-> 0,
     hits              |-> 0,
     hit_streak        |-> 0,
     time_since_update |-> 0,
     history           |-> track_id,
     bbox              |-> detection.bbox,
     confidence        |-> detection.confidence,
     last_update       |-> now]

\* The filter starts at the top-left corner of the box, not at its center.
Track_init_CornerPosition(detection, track_id, now) ==
    [id                |-> track_id,
     kalman            |-> KalmanFilter_init(
                              <<detection.bbox[1], detection.bbox[2], 0, 0>>),
     age               |-> 0,
     hits              |-> 1,
     hit_streak        |-> 1,
     time_since_update |-> 0,
     history           |-> track_id,
     bbox              |-> detection.bbox,
     confidence        |-> detection.confidence,
     last_update       |-> now]

\* The creating detection is the first entry of the history.
Track_init_history_Recorded(detection) ==
    <<[position |-> detection.center, bbox |-> detection.bbox]>>

\* Track.__init__, the list object created: self.history = []
Track_init_history(detection) == <<>>

\* Track.__init__; the history list it allocates gets the address track_id.
Track_init(detection, track_id, now) ==
    [id                |-> track_id,
     kalman            |-> KalmanFilter_init(
                              <<detection.center[1], detection.center[2], 0, 0>>),
     age               |-> 0,
     hits              |-> 1,
     hit_streak        |-> 1,
     time_since_update |-> 0,
     history           |-> track_id,
     bbox              |-> detection.bbox,
     confidence        |-> detection.confidence,
     last_update       |-> now]

\* A missed frame ends the streak, as in the SORT tracker.
Track_predict_ResetStreak(track) ==
    [track EXCEPT !.kalman = KalmanFilter_predict(@),
                  !.age = @ + 1,
                  !.hit_streak = IF track.time_since_update > 0 THEN 0 ELSE @,
                  !.time_since_update = @ + 1]

\* The age of the track is not advanced.
Track_predict_NoAge(track) ==
    [track EXCEPT !.kalman = KalmanFilter_predict(@),
                  !.time_since_update = @ + 1]

\* A frame without a match does not count as a miss.
Track_predict_NoMiss(track) ==
    [track EXCEPT !.kalman = KalmanFilter_predict(@),
                  !.age = @ + 1]

\* Track.predict
Track_predict(track) ==
    [track EXCEPT !.kalman = KalmanFilter_predict(@),
                  !.age = @ + 1,
                  !.time_since_update = @ + 1]

\* A match is not counted.
Track_update_NoHit(track, detection, now) ==
    [track EXCEPT !.kalman = KalmanFilter_update(@, detection.center),
                  !.hit_streak = @ + 1,
                  !.time_since_update = 0,
                  !.bbox = detection.bbox,
                  !.confidence = detection.confidence,
                  !.last_update = now]

\* time_since_update is left as the predict phase set it.
Track_update_NoReset(track, detection, now) ==
    [track EXCEPT !.kalman = KalmanFilter_update(@, detection.center),
                  !.hits = @ + 1,
                  !.hit_streak = @ + 1,
                  !.bbox = detection.bbox,
                  !.confidence = detection.confidence,
                  !.last_update = now]

\* Track.update, the fields of the Track object
Track_update(track, detection, now) ==
    [track EXCEPT !.kalman = KalmanFilter_update(@, detection.center),
                  !.hits = @ + 1,
                  !.hit_streak = @ + 1,
                  !.time_since_update = 0,
                  !.bbox = detection.bbox,
                  !.confidence = detection.confidence,
                  !.last_update = now]

\* The entry dropped from a full list is the one just appended.
History_update_DropNewest(history, detection) ==
    LET appended ==
            Append(history,
                   [position |-> detection.center, bbox |-> detection.bbox])
    IN  IF Len(appended) > HistoryCap
        THEN SubSeq(appended, 1, Len(appended) - 1)
        ELSE appended

\* The oldest entry is never dropped.
History_update_NoPop(history, detection) ==
    Append(history, [position |-> detection.center, bbox |-> detection.bbox])

\* Track.update, the in-place change of the history list
History_update(history, detection) ==
    LET appended ==
            Append(history,
                   [position |-> detection.center, bbox |-> detection.bbox])
    IN  IF Len(appended) > HistoryCap THEN Tail(appended) ELSE appended

\* Track.get_state: 'history' is the list object itself, that is, its address.
get_state(track) ==
    [id          |-> track.id,
     bbox        |-> track.bbox,
     center      |-> KalmanPosition(track.kalman),
     velocity    |-> KalmanVelocity(track.kalman),
     confidence  |-> track.confidence,
     age         |-> track.age,
     hits        |-> track.hits,
     history     |-> track.history,
     last_update |-> track.last_update]

\* ---------------------------------------------------- ObjectTracker

\* A track is kept through the frame in which it reaches max_age.
Survives_Late(track) == track.time_since_update <= max_age

\* track.time_since_update < self.max_age
Survives(track) == track.time_since_update < max_age

\* Confirmed one hit late.
IsConfirmed_Late(track) == track.hits > min_hits

\* track.hits >= self.min_hits
IsConfirmed(track) == track.hits >= min_hits

\* The id of a new track is its position in the list.
NewTrackId_FromLength(first_id, k, n_tracks) == n_tracks + 1

\* The id of the k-th track created in one call, the list holding n_tracks
\* tracks at that moment: self.next_id, incremented after each creation.
NewTrackId(first_id, k, n_tracks) == first_id + k - 1

\* The elements of a set of indices in increasing order.
RECURSIVE Ascending(_)
Ascending(S) ==
    IF S = {} THEN <<>>
    ELSE LET least == CHOOSE x \in S : \A y \in S : x <= y
         IN  <<least>> \o Ascending(S \ {least})

\* The addresses a mapping of snapshots holds.
Held(snapshots) == {snapshots[i].history : i \in DOMAIN snapshots}

\* ObjectTracker.update(detections), with `assoc` the result of the
\* association.  Returns the new tracks, next_id, heap and the returned
\* mapping.
update(dets, assoc, now) ==
    LET predicted_tracks == [t \in 1..Len(tracks) |-> Track_predict(tracks[t])]
        Det(t) == dets[(CHOOSE p \in assoc.matched_tracks : p[1] = t)[2]]
        IsMatched(t) == \E p \in assoc.matched_tracks : p[1] = t
        updated ==
            [t \in 1..Len(tracks) |->
                IF IsMatched(t)
                THEN Track_update(predicted_tracks[t], Det(t), now)
                ELSE predicted_tracks[t]]
        new_dets == Ascending(assoc.unmatched_detections)
        created ==
            [k \in 1..Len(new_dets) |->
                Track_init(dets[new_dets[k]],
                           NewTrackId(next_id, k, Len(tracks) + k - 1), now)]
        all_tracks == updated \o created
        heap ==
            [a \in DOMAIN lists \cup {created[k].history : k \in DOMAIN created}
               |->
                IF \E t \in 1..Len(tracks) :
                       IsMatched(t) /\ tracks[t].history = a
                THEN LET t == CHOOSE u \in 1..Len(tracks) :
                                  IsMatched(u) /\ tracks[u].history = a
                     IN  History_update(lists[a], Det(t))
                ELSE IF a \in DOMAIN lists THEN lists[a]
                ELSE LET k == CHOOSE j \in DOMAIN created :
                                  created[j].history = a
                     IN  Track_init_history(dets[new_dets[k]])]
        kept == SelectSeq(all_tracks, Survives)
        confirmed ==
            {i \in 1..Len(kept) : IsConfirmed(kept[i])}
        confirmed_tracks ==
            [id \in {kept[i].id : i \in confirmed} |->
                get_state(kept[CHOOSE i \in confirmed : kept[i].id = id])]
    IN  [tracks           |-> kept,
         next_id          |-> next_id + Len(created),
         heap             |-> heap,
         predicted_tracks |-> predicted_tracks,
         confirmed_tracks |-> confirmed_tracks]

\* -------------------------------------------------------- predictor

Eps == <<EpsNum, EpsDen>>

frame_bounds == <<Int2Rat(frame_width), Int2Rat(frame_height)>>

\* Positions and velocities are pairs of fractions.

\* The crossing `crossing` put into the sorted list `sorted` behind every
\* entry whose time is not larger (list.sort is stable).
RECURSIVE InsertByTime(_, _)
InsertByTime(crossing, sorted) ==
    IF sorted = <<>> THEN <<crossing>>
    ELSE IF RatLess(crossing[3], Head(sorted)[3])
         THEN <<crossing>> \o sorted
         ELSE <<Head(sorted)>> \o InsertByTime(crossing, Tail(sorted))

\* intersections.sort(key=lambda x: x[2])
RECURSIVE SortByTime(_)
SortByTime(intersections) ==
    IF intersections = <<>> THEN <<>>
    ELSE InsertByTime(intersections[Len(intersections)],
                      SortByTime(SubSeq(intersections, 1,
                                        Len(intersections) - 1)))

\* The early return for a negligible velocity is taken when one component
\* is negligible.
calculate_impact_point_EitherNegligible(position, velocity) ==
    LET x == position[1]
        y == position[2]
        vx == velocity[1]
        vy == velocity[2]
        zero == Int2Rat(0)
        right == IF RatLess(zero, vx)
                 THEN <<<<frame_bounds[1], y,
                          RatDiv(RatSub(frame_bounds[1], x), vx)>>>>
                 ELSE <<>>
    IN  IF RatLess(RatAbs(vx), Eps) \/ RatLess(RatAbs(vy), Eps)
        THEN position
        ELSE IF right # <<>> /\ RatLess(zero, right[1][3])
             THEN <<right[1][1], right[1][2]>>
             ELSE <<RatAdd(x, RatMul(vx, Int2Rat(ExtrapolationTime))),
                    RatAdd(y, RatMul(vy, Int2Rat(ExtrapolationTime)))>>

\* The first crossing whose time is not negative is returned: a crossing at
\* time 0 counts.
calculate_impact_point_TimeZero(position, velocity) ==
    LET x == position[1]
        y == position[2]
        vx == velocity[1]
        vy == velocity[2]
        zero == Int2Rat(0)
        Within(c, limit) == RatLeq(zero, c) /\ RatLeq(c, limit)
        left ==
            IF RatLess(vx, zero)
            THEN LET t == RatDiv(RatNeg(x), vx)
                     y_intersect == RatAdd(y, RatMul(vy, t))
                 IN  IF Within(y_intersect, frame_bounds[2])
                     THEN <<<<zero, y_intersect, t>>>> ELSE <<>>
            ELSE <<>>
        right ==
            IF RatLess(zero, vx)
            THEN LET t == RatDiv(RatSub(frame_bounds[1], x), vx)
                     y_intersect == RatAdd(y, RatMul(vy, t))
                 IN  IF Within(y_intersect, frame_bounds[2])
                     THEN <<<<frame_bounds[1], y_intersect, t>>>> ELSE <<>>
            ELSE <<>>
        top ==
            IF RatLess(vy, zero)
            THEN LET t == RatDiv(RatNeg(y), vy)
                     x_intersect == RatAdd(x, RatMul(vx, t))
                 IN  IF Within(x_intersect, frame_bounds[1])
                     THEN <<<<x_intersect, zero, t>>>> ELSE <<>>
            ELSE <<>>
        bottom ==
            IF RatLess(zero, vy)
            THEN LET t == RatDiv(RatSub(frame_bounds[2], y), vy)
                     x_intersect == RatAdd(x, RatMul(vx, t))
                 IN  IF Within(x_intersect, frame_bounds[1])
                     THEN <<<<x_intersect, frame_bounds[2], t>>>> ELSE <<>>
            ELSE <<>>
        intersections == SortByTime(left \o right \o top \o bottom)
        positive == {i \in DOMAIN intersections :
                        RatLeq(zero, intersections[i][3])}
    IN  IF RatLess(RatAbs(vx), Eps) /\ RatLess(RatAbs(vy), Eps)
        THEN position
        ELSE IF positive # {}
             THEN LET first == CHOOSE i \in positive :
                                  \A j \in positive : i <= j
                  IN  <<intersections[first][1], intersections[first][2]>>
             ELSE <<RatAdd(x, RatMul(vx, Int2Rat(ExtrapolationTime))),
                    RatAdd(y, RatMul(vy, Int2Rat(ExtrapolationTime)))>>

\* TrajectoryPredictor._calculate_impact_point
calculate_impact_point(position, velocity) ==
    LET x == position[1]
        y == position[2]
        vx == velocity[1]
        vy == velocity[2]
        zero == Int2Rat(0)
        Within(c, limit) == RatLeq(zero, c) /\ RatLeq(c, limit)
        left ==
            IF RatLess(vx, zero)
            THEN LET t == RatDiv(RatNeg(x), vx)
                     y_intersect == RatAdd(y, RatMul(vy, t))
                 IN  IF Within(y_intersect, frame_bounds[2])
                     THEN <<<<zero, y_intersect, t>>>> ELSE <<>>
            ELSE <<>>
        right ==
            IF RatLess(zero, vx)
            THEN LET t == RatDiv(RatSub(frame_bounds[1], x), vx)
                     y_intersect == RatAdd(y, RatMul(vy, t))
                 IN  IF Within(y_intersect, frame_bounds[2])
                     THEN <<<<frame_bounds[1], y_intersect, t>>>> ELSE <<>>
            ELSE <<>>
        top ==
            IF RatLess(vy, zero)
            THEN LET t == RatDiv(RatNeg(y), vy)
                     x_intersect == RatAdd(x, RatMul(vx, t))
                 IN  IF Within(x_intersect, frame_bounds[1])
                     THEN <<<<x_intersect, zero, t>>>> ELSE <<>>
            ELSE <<>>
        bottom ==
            IF RatLess(zero, vy)
            THEN LET t == RatDiv(RatSub(frame_bounds[2], y), vy)
                     x_intersect == RatAdd(x, RatMul(vx, t))
                 IN  IF Within(x_intersect, frame_bounds[1])
                     THEN <<<<x_intersect, frame_bounds[2], t>>>> ELSE <<>>
            ELSE <<>>
        intersections == SortByTime(left \o right \o top \o bottom)
        positive == {i \in DOMAIN intersections :
                        RatLess(zero, intersections[i][3])}
    IN  IF RatLess(RatAbs(vx), Eps) /\ RatLess(RatAbs(vy), Eps)
        THEN position
        ELSE IF positive # {}
             THEN LET first == CHOOSE i \in positive :
                                  \A j \in positive : i <= j
                  IN  <<intersections[first][1], intersections[first][2]>>
             ELSE <<RatAdd(x, RatMul(vx, Int2Rat(ExtrapolationTime))),
                    RatAdd(y, RatMul(vy, Int2Rat(ExtrapolationTime)))>>

\* np.sqrt(velocity[0]**2 + velocity[1]**2) > 1e-6.  A speed is at least
\* the larger component; when neither component is above 1e-6 the squares
\* are compared on the common denominator of the three fractions.
SpeedAboveEps(velocity) ==
    IF \/ RatLess(Eps, RatAbs(velocity[1]))
       \/ RatLess(Eps, RatAbs(velocity[2]))
    THEN TRUE
    ELSE LET Lcm(a, b) == (a \div GCD(a, b)) * b
             den == Lcm(Lcm(velocity[1][2], velocity[2][2]), Eps[2])
             a == velocity[1][1] * (den \div velocity[1][2])
             b == velocity[2][1] * (den \div velocity[2][2])
             e == Eps[1] * (den \div Eps[2])
         IN  a * a + b * b > e * e

\* np.sqrt(dx**2 + dy**2) / np.sqrt(velocity[0]**2 + velocity[1]**2) for a
\* velocity that is not (0, 0): |t| when the displacement is t times the
\* velocity.
DistanceOverSpeed(dx, dy, velocity) ==
    LET t == IF velocity[1][1] # 0 THEN RatDiv(dx, velocity[1])
             ELSE RatDiv(dy, velocity[2])
    IN  IF /\ RatEq(dx, RatMul(t, velocity[1]))
           /\ RatEq(dy, RatMul(t, velocity[2]))
        THEN RatAbs(t)
        ELSE Irrational

\* The x axis is taken when the two components are of equal magnitude.
calculate_time_to_impact_TieToX(position, velocity, impact_point) ==
    LET dx == RatSub(impact_point[1], position[1])
        dy == RatSub(impact_point[2], position[2])
        fallback ==
            IF SpeedAboveEps(velocity)
            THEN DistanceOverSpeed(dx, dy, velocity)
            ELSE Infinity
    IN  IF RatLeq(RatAbs(velocity[2]), RatAbs(velocity[1]))
        THEN IF RatLess(Eps, RatAbs(velocity[1]))
             THEN RatDiv(dx, velocity[1])
             ELSE fallback
        ELSE IF RatLess(Eps, RatAbs(velocity[2]))
             THEN RatDiv(dy, velocity[2])
             ELSE fallback

\* TrajectoryPredictor._calculate_time_to_impact
calculate_time_to_impact(position, velocity, impact_point) ==
    LET dx == RatSub(impact_point[1], position[1])
        dy == RatSub(impact_point[2], position[2])
        fallback ==
            IF SpeedAboveEps(velocity)
            THEN DistanceOverSpeed(dx, dy, velocity)
            ELSE Infinity
    IN  IF RatLess(RatAbs(velocity[2]), RatAbs(velocity[1]))
        THEN IF RatLess(Eps, RatAbs(velocity[1]))
             THEN RatDiv(dx, velocity[1])
             ELSE fallback
        ELSE IF RatLess(Eps, RatAbs(velocity[2]))
             THEN RatDiv(dy, velocity[2])
             ELSE fallback

KalmanConfidence == <<KalmanConfidenceNum, KalmanConfidenceDen>>

\* The k-th forecast time after `start`, k = 0, 1, ...: np.arange(start,
\* start + prediction_time, 0.1) has prediction_time * StepsPerSecond
\* entries.
ForecastSteps == prediction_time * StepsPerSecond

ForecastTime(start, k) == RatAdd(start, <<k, StepsPerSecond>>)

\* np.linalg.norm(velocity), np.sqrt(slope_x**2 + slope_y**2)
Norm(velocity) ==
    RatSqrt(RatAdd(RatMul(velocity[1], velocity[1]),
                   RatMul(velocity[2], velocity[2])))

\* scipy.stats.linregress(x, y) for x that are not all equal: the
\* least-squares slope and intercept and the correlation coefficient, which
\* is 0.0 when x or y has no variance.
linregress(x, y) ==
    LET n == Int2Rat(Len(x))
        xmean == RatDiv(RatSum(x), n)
        ymean == RatDiv(RatSum(y), n)
        \* the entries of np.cov(x, y, bias=1)
        ssxm == RatSub(RatDiv(RatSum([i \in DOMAIN x |-> RatMul(x[i], x[i])]), n),
                       RatMul(xmean, xmean))
        ssym == RatSub(RatDiv(RatSum([i \in DOMAIN x |-> RatMul(y[i], y[i])]), n),
                       RatMul(ymean, ymean))
        ssxym == RatSub(RatDiv(RatSum([i \in DOMAIN x |-> RatMul(x[i], y[i])]), n),
                        RatMul(xmean, ymean))
        slope == RatDiv(ssxym, ssxm)
        root == RatSqrt(RatMul(ssxm, ssym))
    IN  [slope     |-> slope,
         intercept |-> RatSub(ymean, RatMul(slope, xmean)),
         rvalue    |-> IF ssxm[1] = 0 \/ ssym[1] = 0 THEN <<0, 1>>
                       ELSE IF root = Irrational THEN Irrational
                       ELSE RatDiv(ssxym, root)]

\* min(abs(r_x), abs(r_y))
MinAbs(r_x, r_y) ==
    IF r_x = Irrational \/ r_y = Irrational THEN Irrational
    ELSE IF RatLess(RatAbs(r_y), RatAbs(r_x)) THEN RatAbs(r_y)
         ELSE RatAbs(r_x)

\* F(a, b), with a and b evaluated once before F is.  (TLC evaluates the
\* arguments of an operator where they are used, each time they are used.)
Call2(F(_, _), a, b) ==
    CHOOSE result \in {F(x, y) : x \in {a}, y \in {b}} : TRUE

\* TrajectoryPredictor._linear_prediction from the two regressions on: the
\* forecast for the fits fit_x and fit_y of a history that ends at time
\* current_time in position last_position
LinearForecast(fit_x, fit_y, current_time, last_position) ==
    LET velocity == <<fit_x.slope, fit_y.slope>>
        impact_point == calculate_impact_point(last_position, velocity)
    IN  [status         |-> "success",
         method         |-> "linear",
         trajectory     |->
             [k \in 1..ForecastSteps |->
                 LET t == ForecastTime(current_time, k - 1)
                 IN  <<RatAdd(RatMul(fit_x.slope, t), fit_x.intercept),
                       RatAdd(RatMul(fit_y.slope, t), fit_y.intercept)>>],
         velocity       |-> velocity,
         speed          |-> Norm(velocity),
         impact_point   |-> impact_point,
         time_to_impact |->
             calculate_time_to_impact(last_position, velocity, impact_point),
         confidence     |-> MinAbs(fit_x.rvalue, fit_y.rvalue)]

\* TrajectoryPredictor._linear_prediction
linear_prediction(positions, timestamps) ==
    IF Len(positions) < MinLinearPoints
    THEN [status |-> "insufficient_data"]
    ELSE LET dt == [i \in DOMAIN timestamps |->
                       RatSub(timestamps[i], timestamps[1])]
         IN  Call2(LAMBDA fit_x, fit_y :
                       LinearForecast(fit_x, fit_y, dt[Len(dt)],
                                      positions[Len(positions)]),
                   linregress(dt, [i \in DOMAIN positions |-> positions[i][1]]),
                   linregress(dt, [i \in DOMAIN positions |-> positions[i][2]]))

\* The constant-velocity forecast carries confidence 0.
kalman_prediction_NoConfidence(track) ==
    LET velocity == track.velocity
        position == track.center
        impact_point == calculate_impact_point(position, velocity)
    IN  [status         |-> "success",
         method         |-> "kalman",
         trajectory     |->
             [k \in 1..ForecastSteps |->
                 LET t == ForecastTime(Int2Rat(0), k - 1)
                 IN  <<RatAdd(position[1], RatMul(velocity[1], t)),
                       RatAdd(position[2], RatMul(velocity[2], t))>>],
         velocity       |-> velocity,
         speed          |-> Norm(velocity),
         impact_point   |-> impact_point,
         time_to_impact |->
             calculate_time_to_impact(position, velocity, impact_point),
         confidence     |-> Int2Rat(0)]

\* TrajectoryPredictor._kalman_prediction
kalman_prediction(track) ==
    LET velocity == track.velocity
        position == track.center
        impact_point == calculate_impact_point(position, velocity)
    IN  [status         |-> "success",
         method         |-> "kalman",
         trajectory     |->
             [k \in 1..ForecastSteps |->
                 LET t == ForecastTime(Int2Rat(0), k - 1)
                 IN  <<RatAdd(position[1], RatMul(velocity[1], t)),
                       RatAdd(position[2], RatMul(velocity[2], t))>>],
         velocity       |-> velocity,
         speed          |-> Norm(velocity),
         impact_point   |-> impact_point,
         time_to_impact |->
             calculate_time_to_impact(position, velocity, impact_point),
         confidence     |-> KalmanConfidence]

\* w_linear * a + w_kalman * b
Weighted(w_linear, a, w_kalman, b) ==
    RatAdd(RatMul(w_linear, a), RatMul(w_kalman, b))

\* The impact point and the time come from the linear forecast on a tie
\* too.
combine_predictions_TieToLinear(linear_pred, kalman_pred) ==
    IF linear_pred.status # "success" THEN kalman_pred
    ELSE IF kalman_pred.status # "success" THEN linear_pred
    ELSE LET total_weight ==
                 RatAdd(linear_pred.confidence, kalman_pred.confidence)
             w_linear == RatDiv(linear_pred.confidence, total_weight)
             w_kalman == RatDiv(kalman_pred.confidence, total_weight)
             combined_velocity ==
                 [c \in 1..2 |->
                     Weighted(w_linear, linear_pred.velocity[c],
                              w_kalman, kalman_pred.velocity[c])]
             use_linear == RatLeq(w_kalman, w_linear)
         IN  IF total_weight[1] = 0 THEN kalman_pred
             ELSE [status         |-> "success",
                   method         |-> "combined",
                   trajectory     |->
                       [k \in DOMAIN linear_pred.trajectory |->
                           [c \in 1..2 |->
                               Weighted(w_linear, linear_pred.trajectory[k][c],
                                        w_kalman, kalman_pred.trajectory[k][c])]],
                   velocity       |-> combined_velocity,
                   speed          |-> Norm(combined_velocity),
                   impact_point   |->
                       IF use_linear THEN linear_pred.impact_point
                       ELSE kalman_pred.impact_point,
                   time_to_impact |->
                       IF use_linear THEN linear_pred.time_to_impact
                       ELSE kalman_pred.time_to_impact,
                   confidence     |->
                       Weighted(w_linear, linear_pred.confidence,
                                w_kalman, kalman_pred.confidence)]

\* Two forecasts of confidence 0 give the linear forecast.
combine_predictions_ZeroToLinear(linear_pred, kalman_pred) ==
    IF linear_pred.status # "success" THEN kalman_pred
    ELSE IF kalman_pred.status # "success" THEN linear_pred
    ELSE LET total_weight ==
                 RatAdd(linear_pred.confidence, kalman_pred.confidence)
             w_linear == RatDiv(linear_pred.confidence, total_weight)
             w_kalman == RatDiv(kalman_pred.confidence, total_weight)
             combined_velocity ==
                 [c \in 1..2 |->
                     Weighted(w_linear, linear_pred.velocity[c],
                              w_kalman, kalman_pred.velocity[c])]
             use_linear == RatLess(w_kalman, w_linear)
         IN  IF total_weight[1] = 0 THEN linear_pred
             ELSE [status         |-> "success",
                   method         |-> "combined",
                   trajectory     |->
                       [k \in DOMAIN linear_pred.trajectory |->
                           [c \in 1..2 |->
                               Weighted(w_linear, linear_pred.trajectory[k][c],
                                        w_kalman, kalman_pred.trajectory[k][c])]],
                   velocity       |-> combined_velocity,
                   speed          |-> Norm(combined_velocity),
                   impact_point   |->
                       IF use_linear THEN linear_pred.impact_point
                       ELSE kalman_pred.impact_point,
                   time_to_impact |->
                       IF use_linear THEN linear_pred.time_to_impact
                       ELSE kalman_pred.time_to_impact,
                   confidence     |->
                       Weighted(w_linear, linear_pred.confidence,
                                w_kalman, kalman_pred.confidence)]

\* TrajectoryPredictor._combine_predictions, for two trajectories of the
\* same length
combine_predictions(linear_pred, kalman_pred) ==
    IF linear_pred.status # "success" THEN kalman_pred
    ELSE IF kalman_pred.status # "success" THEN linear_pred
    ELSE LET total_weight ==
                 RatAdd(linear_pred.confidence, kalman_pred.confidence)
             w_linear == RatDiv(linear_pred.confidence, total_weight)
             w_kalman == RatDiv(kalman_pred.confidence, total_weight)
             combined_velocity ==
                 [c \in 1..2 |->
                     Weighted(w_linear, linear_pred.velocity[c],
                              w_kalman, kalman_pred.velocity[c])]
             use_linear == RatLess(w_kalman, w_linear)
         IN  IF total_weight[1] = 0 THEN kalman_pred
             ELSE [status         |-> "success",
                   method         |-> "combined",
                   trajectory     |->
                       [k \in DOMAIN linear_pred.trajectory |->
                           [c \in 1..2 |->
                               Weighted(w_linear, linear_pred.trajectory[k][c],
                                        w_kalman, kalman_pred.trajectory[k][c])]],
                   velocity       |-> combined_velocity,
                   speed          |-> Norm(combined_velocity),
                   impact_point   |->
                       IF use_linear THEN linear_pred.impact_point
                       ELSE kalman_pred.impact_point,
                   time_to_impact |->
                       IF use_linear THEN linear_pred.time_to_impact
                       ELSE kalman_pred.time_to_impact,
                   confidence     |->
                       Weighted(w_linear, linear_pred.confidence,
                                w_kalman, kalman_pred.confidence)]

\* A history of at most min_history_points entries is insufficient.
predict_trajectory_OneMore(track) ==
    IF Len(track.history) <= min_history_points
    THEN [status |-> "insufficient_data"]
    ELSE Call2(combine_predictions,
               linear_prediction(
                   [i \in DOMAIN track.history |-> track.history[i].position],
                   [i \in DOMAIN track.history |-> track.history[i].timestamp]),
               kalman_prediction(track))

\* TrajectoryPredictor.predict_trajectory, for a snapshot that carries its
\* history list
predict_trajectory(track) ==
    IF Len(track.history) < min_history_points
    THEN [status |-> "insufficient_data"]
    ELSE Call2(combine_predictions,
               linear_prediction(
                   [i \in DOMAIN track.history |-> track.history[i].position],
                   [i \in DOMAIN track.history |-> track.history[i].timestamp]),
               kalman_prediction(track))

\* ------------------------------------------------------ the driver

\* The guard of TrajectoryPredictor.predict_trajectory: the status of the
\* result for a history of n entries.  (With n >= 5 the constant-velocity
\* forecast has status success, so every branch of _combine_predictions
\* returns a result of status success.)
prediction_status(n) ==
    IF n < min_history_points THEN "insufficient_data" ELSE "success"

\* Only snapshots with enough history get an entry.
process_frame_predictions_SkipShort(returned, heap) ==
    [obj_id \in {id \in DOMAIN returned :
                    Len(heap[returned[id].history]) >= min_history_points} |->
        [status |-> prediction_status(Len(heap[returned[obj_id].history]))]]

\* The loop of MissileTrackingSystem.process_frame over the mapping that
\* tracker.update returned: one predict_trajectory call per item.
process_frame_predictions(returned, heap) ==
    [obj_id \in DOMAIN returned |->
        [status |-> prediction_status(Len(heap[returned[obj_id].history]))]]

\* --------------------------------------------------- the frame loop

\* The heap without the lists nobody holds any more.
Collect(heap, live_tracks, returned, shown) ==
    LET reachable == {live_tracks[i].history : i \in DOMAIN live_tracks}
                        \cup Held(returned) \cup Held(shown)
    IN  [a \in DOMAIN heap \cap reachable |-> heap[a]]

NoCall ==
    [detections           |-> <<>>,
     predicted_tracks     |-> <<>>,
     iou_matrix           |-> <<>>,
     matched_indices      |-> {},
     matched_tracks       |-> {},
     unmatched_detections |-> {},
     unmatched_tracks     |-> {}]

\* No function call is under way.
NoQuery == [op |-> "none", done |-> TRUE]

\* MissileTrackingSystem.__init__, ObjectTracker.__init__, TerminalUI.__init__:
\* the variables of the frame loop
LoopInit ==
    /\ tracks = <<>>
    /\ next_id = 1
    /\ lists = <<>>
    /\ frame = 0
    /\ pc = "process_frame"
    /\ tracked_objects = <<>>
    /\ ui_tracked_objects = <<>>
    /\ call = NoCall
    /\ predictions = <<>>
    /\ ui_predictions = <<>>
    /\ quiet_calls = 0

Init ==
    /\ LoopInit
    /\ query = NoQuery

\* One iteration of the loop of MissileTrackingSystem.run up to the return
\* of process_frame: the detector delivers `dets`, tracker.update runs once,
\* then predict_trajectory runs on each snapshot it returned.
ProcessFrame(dets, limit) ==
    /\ pc = "process_frame"
    /\ frame < limit
    /\ \E assoc \in associate_detections_to_tracks(
                        dets, [t \in 1..Len(tracks) |-> Track_predict(tracks[t])]) :
          LET r == update(dets, assoc, frame + 1)
          IN  /\ tracks' = r.tracks
              /\ next_id' = r.next_id
              /\ tracked_objects' = r.confirmed_tracks
              /\ predictions' =
                    process_frame_predictions(r.confirmed_tracks, r.heap)
              /\ lists' = Collect(r.heap, r.tracks, r.confirmed_tracks,
                                  ui_tracked_objects)
              /\ call' = [detections           |-> dets,
                          predicted_tracks     |-> r.predicted_tracks,
                          iou_matrix           |-> assoc.iou_matrix,
                          matched_indices      |-> assoc.matched_indices,
                          matched_tracks       |-> assoc.matched_tracks,
                          unmatched_detections |-> assoc.unmatched_detections,
                          unmatched_tracks     |-> assoc.unmatched_tracks]
    /\ frame' = frame + 1
    /\ quiet_calls' = IF dets = <<>> THEN quiet_calls + 1 ELSE 0
    /\ pc' = "update_data"
    /\ UNCHANGED <<ui_tracked_objects, ui_predictions, query>>

\* self.ui.update_data(tracked_objects, predictions): shallow copies of the
\* two mappings, the snapshots and the lists they hold are shared.  (The
\* display counters success_count and total_predictions grow without bound
\* and are read only by the display; they are left out.)
UpdateData ==
    /\ pc = "update_data"
    /\ ui_tracked_objects' = tracked_objects
    /\ ui_predictions' = predictions
    /\ lists' = Collect(lists, tracks, tracked_objects, tracked_objects)
    /\ pc' = "process_frame"
    /\ UNCHANGED <<tracks, next_id, frame, tracked_objects, call, predictions,
                   query, quiet_calls>>

Next ==
    \/ \E dets \in DetSeqs : ProcessFrame(dets, MaxFrames)
    \/ UpdateData

Spec == Init /\ [][Next]_vars

NextLong ==
    \/ \E dets \in LongDetSeqs : ProcessFrame(dets, MaxFramesLong)
    \/ UpdateData

SpecLong == Init /\ [][NextLong]_vars

\* ------------------------------------------- single function calls

\* The variables of the frame loop.
loop_vars == <<tracks, next_id, lists, frame, pc, tracked_objects,
               ui_tracked_objects, call, predictions, ui_predictions,
               quiet_calls>>

\* Boxes with x2 > x1 and y2 > y1 on the grid 0..MaxCoord.
Boxes ==
    {b \in (0..MaxCoord) \X (0..MaxCoord) \X (0..MaxCoord) \X (0..MaxCoord) :
        b[3] > b[1] /\ b[4] > b[2]}

IouQueries ==
    {[op |-> "calculate_iou", done |-> FALSE, bbox1 |-> a, bbox2 |-> b] :
        a \in Boxes, b \in Boxes}

\* self._calculate_iou(bbox1, bbox2), and the same call with the arguments
\* swapped and with bbox1 twice
CalculateIou ==
    /\ query.op = "calculate_iou"
    /\ ~query.done
    /\ query' = [op       |-> query.op,
                 done     |-> TRUE,
                 bbox1    |-> query.bbox1,
                 bbox2    |-> query.bbox2,
                 iou      |-> calculate_iou(query.bbox1, query.bbox2),
                 swapped  |-> calculate_iou(query.bbox2, query.bbox1),
                 with_self |-> calculate_iou(query.bbox1, query.bbox1)]
    /\ UNCHANGED loop_vars

\* Coordinates inside, on the edges of and outside the frame.
XCoords == {-10, 0, 100, 640, frame_width, frame_width + 20}

YCoords == {-5, 0, 100, frame_height, frame_height + 80}

Positions == {<<Int2Rat(x), Int2Rat(y)>> : x \in XCoords, y \in YCoords}

\* Velocity components in pixels per second.
Speeds == {Int2Rat(v) : v \in {-10, -1, 0, 1, 10}}

\* Velocity components below 1e-6 in magnitude: 0, 5e-7, 9e-7, -9e-7.
SmallSpeeds ==
    {<<0, 1>>, <<1, 2 * EpsDen>>, <<9, 10 * EpsDen>>, <<-9, 10 * EpsDen>>}

\* Velocity components of magnitude 1e-6, and 0.
EdgeSpeeds == {<<0, 1>>, Eps, RatNeg(Eps)}

Velocities ==
    (Speeds \X Speeds) \cup (SmallSpeeds \X SmallSpeeds)
        \cup (EdgeSpeeds \X EdgeSpeeds)

ImpactQueries ==
    {[op |-> "calculate_impact_point", done |-> FALSE,
      position |-> p, velocity |-> v] : p \in Positions, v \in Velocities}

\* impact_point = self._calculate_impact_point(position, velocity), then
\* self._calculate_time_to_impact(position, velocity, impact_point), as
\* _linear_prediction and _kalman_prediction call them
CalculateImpact ==
    /\ query.op = "calculate_impact_point"
    /\ ~query.done
    /\ LET impact_point ==
               calculate_impact_point(query.position, query.velocity)
       IN  query' = [op             |-> query.op,
                     done           |-> TRUE,
                     position       |-> query.position,
                     velocity       |-> query.velocity,
                     impact_point   |-> impact_point,
                     time_to_impact |->
                         calculate_time_to_impact(query.position,
                                                  query.velocity,
                                                  impact_point)]
    /\ UNCHANGED loop_vars

\* Impact points that need not lie on the line of motion.
TargetPoints ==
    {<<Int2Rat(x), Int2Rat(y)>> : x \in {0, 100, 640, frame_width},
                                  y \in {0, 100, frame_height}}

\* Velocities with a larger x component, a larger y component, components
\* of equal magnitude, and components at or below 1e-6.
TimeVelocities ==
    {<<Int2Rat(10), Int2Rat(1)>>, <<Int2Rat(-10), Int2Rat(1)>>,
     <<Int2Rat(1), Int2Rat(10)>>, <<Int2Rat(0), Int2Rat(-10)>>,
     <<Int2Rat(10), Int2Rat(10)>>, <<Int2Rat(10), Int2Rat(-10)>>,
     <<Eps, Int2Rat(0)>>, <<Int2Rat(0), Int2Rat(0)>>,
     <<Int2Rat(1), Eps>>}

TimeQueries ==
    {[op |-> "calculate_time_to_impact", done |-> FALSE,
      position |-> p, velocity |-> v, impact_point |-> q] :
        p \in {<<Int2Rat(100), Int2Rat(100)>>, <<Int2Rat(640), Int2Rat(0)>>},
        v \in TimeVelocities, q \in TargetPoints}

\* self._calculate_time_to_impact(position, velocity, impact_point)
CalculateTimeToImpact ==
    /\ query.op = "calculate_time_to_impact"
    /\ ~query.done
    /\ query' = [op             |-> query.op,
                 done           |-> TRUE,
                 position       |-> query.position,
                 velocity       |-> query.velocity,
                 impact_point   |-> query.impact_point,
                 time_to_impact |->
                     calculate_time_to_impact(query.position, query.velocity,
                                              query.impact_point)]
    /\ UNCHANGED loop_vars

\* Velocities of the objects whose histories are given to the predictor, in
\* pixels per second.
LineVelocities == {<<10, 0>>, <<10, 5>>, <<0, 0>>}

\* The history of n matches, one a second, of an object that starts at
\* (100, 100) and moves with velocity v.  (The 'bbox' of an entry is read by
\* no function of the predictor and is left out.)
HistoryOnLine(n, v) ==
    [i \in 1..n |->
        [position  |-> <<Int2Rat(100 + v[1] * (i - 1)),
                         Int2Rat(100 + v[2] * (i - 1))>>,
         timestamp |-> Int2Rat(i - 1)]]

\* A snapshot as Track.get_state builds it, with the fields the predictor
\* reads: the filter stands at the last matched position (at (100, 100)
\* when nothing was matched) with velocity w.
SnapshotOnLine(n, v, w) ==
    [id       |-> 1,
     center   |-> IF n = 0 THEN <<Int2Rat(100), Int2Rat(100)>>
                  ELSE HistoryOnLine(n, v)[n].position,
     velocity |-> <<Int2Rat(w[1]), Int2Rat(w[2])>>,
     history  |-> HistoryOnLine(n, v)]

PredictQueries ==
    {[op |-> "predict_trajectory", done |-> FALSE,
      track |-> SnapshotOnLine(n, v, w)] :
        n \in 0..MaxHistory, v \in LineVelocities, w \in LineVelocities}

\* self.predictor.predict_trajectory(track)
PredictTrajectory ==
    /\ query.op = "predict_trajectory"
    /\ ~query.done
    /\ query' = [op     |-> query.op,
                 done   |-> TRUE,
                 track  |-> query.track,
                 result |-> predict_trajectory(query.track)]
    /\ UNCHANGED loop_vars

\* Confidences of the forecasts given to _combine_predictions.
Confidences == {<<0, 1>>, <<1, 2>>, KalmanConfidence, <<1, 1>>}

\* Forecasts of the two kinds with different impact points, each with any
\* of the confidences, and a forecast without success.
LinearForecasts ==
    LET h == HistoryOnLine(min_history_points, <<10, 5>>)
        base == linear_prediction([i \in DOMAIN h |-> h[i].position],
                                  [i \in DOMAIN h |-> h[i].timestamp])
    IN  {[base EXCEPT !.confidence = c] : c \in Confidences}

KalmanForecasts ==
    LET base == kalman_prediction(
                    SnapshotOnLine(min_history_points, <<10, 5>>, <<-10, 0>>))
    IN  {[base EXCEPT !.confidence = c] : c \in Confidences}

CombineQueries ==
    {[op |-> "combine_predictions", done |-> FALSE,
      linear_pred |-> l, kalman_pred |-> k] :
        l \in LinearForecasts \cup {[status |-> "insufficient_data"]},
        k \in KalmanForecasts \cup {[status |-> "insufficient_data"]}}

\* self._combine_predictions(linear_pred, kalman_pred)
CombinePredictions ==
    /\ query.op = "combine_predictions"
    /\ ~query.done
    /\ query' = [op          |-> query.op,
                 done        |-> TRUE,
                 linear_pred |-> query.linear_pred,
                 kalman_pred |-> query.kalman_pred,
                 result      |-> combine_predictions(query.linear_pred,
                                                     query.kalman_pred)]
    /\ UNCHANGED loop_vars


\* Pixels an object moves between two matches.
Strides == {1, 2, 4}

\* The detection of an object of 20 x 20 pixels after n moves of `stride`
\* pixels along x.
MovingDetection(stride, n) ==
    MkDetection(<<stride * n, 0, stride * n + 20, 20>>, 80)

\* A track just created: its history is empty, no measurement update has
\* arrived yet.
HistoryQueries ==
    {[op |-> "Track.update", done |-> FALSE, stride |-> s,
      history |-> <<>>, arrived |-> <<>>] : s \in Strides}

\* track.update(detection), the history list: the object has moved once
\* more and is matched.  `arrived` records the centers of all matches.
UpdateHistory ==
    /\ query.op = "Track.update"
    /\ ~query.done
    /\ LET detection == MovingDetection(query.stride, Len(query.arrived) + 1)
       IN  query' = [op      |-> query.op,
                     done    |-> Len(query.arrived) + 1 >= MaxUpdates,
                     stride  |-> query.stride,
                     history |-> History_update(query.history, detection),
                     arrived |-> Append(query.arrived, detection.center)]
    /\ UNCHANGED loop_vars

\* A tracker and predictor just constructed, about to be given one call of
\* _calculate_iou or of the impact-point computation, or a series of
\* measurement updates of one track.
InitFunctions ==
    /\ LoopInit
    /\ query \in IouQueries \cup ImpactQueries \cup HistoryQueries
                     \cup TimeQueries

NextFunctions ==
    \/ CalculateIou
    \/ CalculateImpact
    \/ UpdateHistory
    \/ CalculateTimeToImpact

SpecFunctions == InitFunctions /\ [][NextFunctions]_vars

\* A predictor just constructed, about to be given one call of
\* predict_trajectory or of _combine_predictions.
InitPredictor ==
    /\ LoopInit
    /\ query \in PredictQueries \cup CombineQueries

NextPredictor ==
    \/ PredictTrajectory
    \/ CombinePredictions

SpecPredictor == InitPredictor /\ [][NextPredictor]_vars

\* ------------------------------------------------------------ claims

TrackIds == {tracks[i].id : i \in DOMAIN tracks}

\* The IoU of the pair <<t, d>> of the last call, from the boxes the
\* association saw.
PairIoU(p) ==
    calculate_iou(call.predicted_tracks[p[1]].bbox, call.detections[p[2]].bbox)

\* What a holder of the snapshots reads: every history list dereferenced.
Seen(snapshots) ==
    [i \in DOMAIN snapshots |->
        [snapshots[i] EXCEPT !.history = lists[snapshots[i].history]]]

\* C1: the mapping returned by update has an entry for id i exactly when
\* track i is in the active set with hits >= 3, whatever its
\* time_since_update; each entry is the snapshot of that track.
C1_OutputIsConfirmedActive ==
    /\ DOMAIN tracked_objects =
          {tracks[i].id : i \in {j \in DOMAIN tracks : tracks[j].hits >= 3}}
    /\ \A i \in DOMAIN tracks :
          tracks[i].hits >= 3 =>
              /\ tracked_objects[tracks[i].id].id = tracks[i].id
              /\ tracked_objects[tracks[i].id].hits = tracks[i].hits

\* A confirmed track one missed frame before its removal is still returned.
C1_Witness ==
    \E i \in DOMAIN tracks :
        /\ tracks[i].hits >= 3
        /\ tracks[i].time_since_update = 29
        /\ tracks[i].id \in DOMAIN tracked_objects

\* C2: after update every input detection has either updated exactly one
\* existing track or created exactly one new track (a detection whose
\* solver pair was discarded for IoU <= 0.3 creates a track).
C2_EveryDetectionUsed ==
    \A d \in DOMAIN call.detections :
        LET updated == {p \in call.matched_tracks : p[2] = d}
            created == {i \in DOMAIN tracks :
                            /\ tracks[i].age = 0
                            /\ tracks[i].bbox = call.detections[d].bbox}
        IN  Cardinality(updated) + Cardinality(created) = 1

\* C3: a snapshot a consumer holds never changes: as long as the UI's
\* mapping is not replaced, what the UI reads through it stays the same.
C3_SnapshotImmutable ==
    [][ui_tracked_objects' = ui_tracked_objects
          => Seen(ui_tracked_objects)' = Seen(ui_tracked_objects)]_vars

\* C4: at the end of every update call no track with time_since_update >= 30
\* is in the active set or in the output; a track that entered the call
\* with 29 missed frames and was not matched is gone.
C4_NoStaleTrack ==
    /\ \A i \in DOMAIN tracks : tracks[i].time_since_update < 30
    /\ \A t \in DOMAIN call.predicted_tracks :
          (/\ call.predicted_tracks[t].time_since_update >= 30
           /\ \A p \in call.matched_tracks : p[1] # t)
          => /\ call.predicted_tracks[t].id \notin TrackIds
             /\ call.predicted_tracks[t].id \notin DOMAIN tracked_objects

\* A confirmed track reached 30 missed frames in the last call and is gone.
C4_Witness ==
    \E t \in DOMAIN call.predicted_tracks :
        /\ call.predicted_tracks[t].time_since_update = 30
        /\ call.predicted_tracks[t].hits >= 3
        /\ call.predicted_tracks[t].id \notin TrackIds
        /\ call.predicted_tracks[t].id \notin DOMAIN tracked_objects

\* No two detections of the sequence overlap.
NonOverlapping(dets) ==
    \A i, j \in DOMAIN dets :
        i # j => calculate_iou(dets[i].bbox, dets[j].bbox)[1] = 0

\* The tracker after the k-th consecutive call with the detections `dets`,
\* the first made with no tracks: one track per detection, hits = k, and an
\* output that is empty before the third call and complete after it.
AfterCall(k, dets) ==
    /\ call.detections = dets
    /\ Len(tracks) = Len(dets)
    /\ \A i \in DOMAIN tracks :
          /\ tracks[i].hits = k
          /\ tracks[i].age = k - 1
          /\ tracks[i].time_since_update = 0
          /\ tracks[i].bbox = dets[i].bbox
    /\ DOMAIN tracked_objects = IF k >= 3 THEN TrackIds ELSE {}
    /\ \A id \in DOMAIN tracked_objects : tracked_objects[id].hits = 3

\* C5: from a tracker with no tracks, the same mutually non-overlapping
\* detections fed three times give one unconfirmed track per detection and
\* an empty output after calls 1 and 2 (hits 1, then 2), and after call 3
\* exactly one track per detection in the output, each with hits = 3; calls
\* 2 and 3 create no track.
C5_ThreeCallScenario ==
    [][\A dets \in DetSeqs :
          (/\ NonOverlapping(dets)
           /\ frame' = frame + 1
           /\ call'.detections = dets)
          => /\ tracks = <<>> => AfterCall(1, dets)'
             /\ AfterCall(1, dets) => AfterCall(2, dets)' /\ next_id' = next_id
             /\ AfterCall(2, dets) => AfterCall(3, dets)' /\ next_id' = next_id
      ]_vars

\* Two disjoint detections have been fed three times.
C5_Witness ==
    \E dets \in DetSeqs :
        /\ Len(dets) = 2
        /\ NonOverlapping(dets)
        /\ frame = 3
        /\ next_id = 3
        /\ AfterCall(3, dets)

\* C6: ids are unique and strictly increasing in creation order over the
\* whole life of the tracker: a step never lowers next_id, every track it
\* adds gets an id from next_id up (above every id handed out before), the
\* active set lists ids in increasing order, and the output only names
\* active tracks; so a removed id never comes back.
C6_IdsNeverReused ==
    [][/\ next_id' >= next_id
       /\ \A i \in DOMAIN tracks' :
             \/ \E j \in DOMAIN tracks : tracks[j].id = tracks'[i].id
             \/ tracks'[i].id >= next_id /\ tracks'[i].id < next_id'
       /\ \A i, j \in DOMAIN tracks' : i < j => tracks'[i].id < tracks'[j].id
       /\ \A i \in DOMAIN tracks' : tracks'[i].id < next_id'
       /\ DOMAIN tracked_objects' \subseteq {tracks'[i].id : i \in DOMAIN tracks'}
      ]_vars

\* Track 1 has been removed and a later track is active.
C6_Witness ==
    /\ tracks # <<>>
    /\ 1 \notin TrackIds
    /\ \E i \in DOMAIN tracks : tracks[i].id = 2 /\ tracks[i].age = 0

\* C7: every track of the active set has hits >= 1 and a history of at
\* most 30 entries.
C7_HitsAndHistoryBounds ==
    \A i \in DOMAIN tracks :
        /\ tracks[i].hits >= 1
        /\ Len(lists[tracks[i].history]) <= 30

\* A track with a full history has just received one more update.
C7_Witness ==
    \E i \in DOMAIN tracks :
        /\ tracks[i].hits = 32
        /\ tracks[i].time_since_update = 0
        /\ Len(lists[tracks[i].history]) = 30

\* C8: association never accepts a pair whose IoU is <= 0.3: every accepted
\* pair, and every track that received a measurement update in the call,
\* was paired with a detection of IoU strictly above 3/10.
C8_NoMatchAtOrBelowThreshold ==
    /\ \A p \in call.matched_tracks :
          10 * PairIoU(p)[1] > 3 * PairIoU(p)[2]
    /\ \A t \in DOMAIN call.predicted_tracks :
          \A i \in DOMAIN tracks :
              (/\ tracks[i].id = call.predicted_tracks[t].id
               /\ tracks[i].hits # call.predicted_tracks[t].hits)
              => \E d \in DOMAIN call.detections :
                    /\ <<t, d>> \in call.matched_tracks
                    /\ tracks[i].bbox = call.detections[d].bbox
                    /\ 10 * PairIoU(<<t, d>>)[1] > 3 * PairIoU(<<t, d>>)[2]

\* The solver paired a track with a detection of IoU exactly 3/10 and the
\* pair was rejected: the track got no update.
C8_Witness ==
    \E p \in call.matched_indices :
        /\ 10 * PairIoU(p)[1] = 3 * PairIoU(p)[2]
        /\ p \notin call.matched_tracks
        /\ \E i \in DOMAIN tracks :
              /\ tracks[i].id = call.predicted_tracks[p[1]].id
              /\ tracks[i].hits = call.predicted_tracks[p[1]].hits

\* The IoU matrix of the last call, from the boxes the association saw.
CallIoU ==
    [t \in DOMAIN call.predicted_tracks |->
        [d \in DOMAIN call.detections |-> PairIoU(<<t, d>>)]]

\* C9: with tracks and detections both present, the solver's assignment is
\* a complete one-to-one assignment of the smaller side whose total IoU is
\* the largest among all such assignments, and the accepted matching is a
\* one-to-one part of it.
C9_AssignmentOptimal ==
    (Len(call.predicted_tracks) > 0 /\ Len(call.detections) > 0) =>
        /\ call.matched_indices \in
              Assignments(Len(call.predicted_tracks), Len(call.detections))
        /\ \A b \in Assignments(Len(call.predicted_tracks),
                                Len(call.detections)) :
              RatLeq(Total(CallIoU, b), Total(CallIoU, call.matched_indices))
        /\ call.matched_tracks \subseteq call.matched_indices
        /\ \A p, q \in call.matched_tracks :
              (p[1] = q[1] \/ p[2] = q[2]) => p = q

\* Two tracks met two detections, the two assignments differ in total IoU,
\* and a pair above the threshold was left out of the chosen one.
C9_Witness ==
    /\ Len(call.predicted_tracks) = 2
    /\ Len(call.detections) = 2
    /\ \E b \in Assignments(2, 2) :
          /\ RatLess(Total(CallIoU, b), Total(CallIoU, call.matched_indices))
          /\ \E p \in b \ call.matched_indices :
                10 * PairIoU(p)[1] > 3 * PairIoU(p)[2]

\* C10: no track is both updated and removed in one call: every matched
\* track and every track created in the call is in the active set after
\* the call with time_since_update = 0.
C10_UpdatedTracksSurvive ==
    /\ \A p \in call.matched_tracks :
          \E i \in DOMAIN tracks :
              /\ tracks[i].id = call.predicted_tracks[p[1]].id
              /\ tracks[i].hits = call.predicted_tracks[p[1]].hits + 1
              /\ tracks[i].time_since_update = 0
    /\ Cardinality({i \in DOMAIN tracks : tracks[i].age = 0})
          = Cardinality(call.unmatched_detections)
    /\ \A i \in DOMAIN tracks :
          tracks[i].age = 0 => tracks[i].time_since_update = 0

\* A track matched in the very call in which its predict step brought
\* time_since_update to 30 survived that call.
C10_Witness ==
    \E p \in call.matched_tracks :
        /\ call.predicted_tracks[p[1]].time_since_update = 30
        /\ call.predicted_tracks[p[1]].id \in TrackIds

\* C11: an update call with no detections creates no track, leaves hits,
\* hit_streak, history, bbox and confidence of every track as they were and
\* adds exactly 1 to age and time_since_update of every track (a track goes
\* only by reaching 30 missed frames); a call made with no tracks turns
\* every detection into a track.  Both fast paths return normally.
C11_EmptyFrameOnlyAges ==
    [][/\ (frame' = frame + 1 /\ call'.detections = <<>>) =>
             /\ next_id' = next_id
             /\ call'.matched_tracks = {}
             /\ \A i \in DOMAIN tracks' :
                   \E j \in DOMAIN tracks :
                       /\ tracks'[i].id = tracks[j].id
                       /\ tracks'[i].age = tracks[j].age + 1
                       /\ tracks'[i].time_since_update =
                              tracks[j].time_since_update + 1
                       /\ tracks'[i].hits = tracks[j].hits
                       /\ tracks'[i].hit_streak = tracks[j].hit_streak
                       /\ tracks'[i].bbox = tracks[j].bbox
                       /\ tracks'[i].confidence = tracks[j].confidence
                       /\ lists'[tracks'[i].history] = lists[tracks[j].history]
             /\ \A j \in DOMAIN tracks :
                   \/ \E i \in DOMAIN tracks' : tracks'[i].id = tracks[j].id
                   \/ tracks[j].time_since_update + 1 >= 30
       /\ (frame' = frame + 1 /\ tracks = <<>>) =>
             /\ call'.matched_tracks = {}
             /\ Len(tracks') = Len(call'.detections)
      ]_vars

\* Two tracks have gone through two frames without detections.
C11_Witness ==
    /\ call.detections = <<>>
    /\ Len(tracks) = 2
    /\ \A i \in DOMAIN tracks :
          tracks[i].time_since_update = 2 /\ tracks[i].age = 2

\* C12: the tracks an update call creates are the last of the track list, one
\* for each unmatched detection in order; the k-th of them has id
\* next_id + k - 1 (next_id is 1 before the first call and advances by the
\* number created, so ids are consecutive from 1), its filter stands at the
\* center of the detection with velocity (0, 0), hits = 1, age = 0,
\* time_since_update = 0, and bbox and confidence are those of the detection.
C12_CreatedTrackStart ==
    [][frame' = frame + 1 =>
          LET new_dets == Ascending(call'.unmatched_detections)
              n == Len(new_dets)
          IN  /\ frame = 0 => next_id = 1
              /\ next_id' = next_id + n
              /\ Len(tracks') >= n
              /\ \A i \in 1..(Len(tracks') - n) : tracks'[i].id < next_id
              /\ \A k \in 1..n :
                    LET track == tracks'[Len(tracks') - n + k]
                        detection == call'.detections[new_dets[k]]
                    IN  /\ track.id = next_id + k - 1
                        /\ KalmanPosition(track.kalman) = detection.center
                        /\ KalmanVelocity(track.kalman) = <<0, 0>>
                        /\ track.hits = 1
                        /\ track.age = 0
                        /\ track.time_since_update = 0
                        /\ track.bbox = detection.bbox
                        /\ track.confidence = detection.confidence
      ]_vars

\* A call has created the second track next to the first, which is older.
C12_Witness ==
    /\ frame >= 2
    /\ Len(tracks) = 2
    /\ tracks[1].age >= 1
    /\ tracks[2].id = 2
    /\ tracks[2].age = 0
    /\ next_id = 3
    /\ \E d \in call.unmatched_detections :
          KalmanPosition(tracks[2].kalman) = call.detections[d].center

\* C20: in every update call each track present at the start leaves the
\* predict phase with age and time_since_update one higher; if it is then
\* matched its time_since_update is 0 and its hits one higher, otherwise its
\* hits are as before and time_since_update stays one higher.  After the call
\* time_since_update of every track is the number of calls since it was last
\* matched or created, and 0 <= time_since_update <= age.
C20_CounterEvolution ==
    [][frame' = frame + 1 =>
          /\ Len(call'.predicted_tracks) = Len(tracks)
          /\ \A j \in DOMAIN tracks :
                /\ call'.predicted_tracks[j].age = tracks[j].age + 1
                /\ call'.predicted_tracks[j].time_since_update
                      = tracks[j].time_since_update + 1
                /\ \A i \in DOMAIN tracks' :
                      tracks'[i].id = tracks[j].id =>
                          /\ tracks'[i].age = tracks[j].age + 1
                          /\ IF \E p \in call'.matched_tracks : p[1] = j
                             THEN /\ tracks'[i].time_since_update = 0
                                  /\ tracks'[i].hits = tracks[j].hits + 1
                             ELSE /\ tracks'[i].time_since_update
                                        = tracks[j].time_since_update + 1
                                  /\ tracks'[i].hits = tracks[j].hits
          /\ \A i \in DOMAIN tracks' :
                /\ tracks'[i].time_since_update
                      = frame' - tracks'[i].last_update
                /\ 0 <= tracks'[i].time_since_update
                /\ tracks'[i].time_since_update <= tracks'[i].age
      ]_vars

\* A track has been matched three times and missed at least twice, and the
\* last call matched it.
C20_Witness ==
    \E i \in DOMAIN tracks :
        /\ tracks[i].age >= 5
        /\ tracks[i].hits = 4
        /\ tracks[i].time_since_update = 0
        /\ \E p \in call.matched_tracks : p[1] = i

\* C19: each frame-processing cycle runs tracker.update once and then
\* predict_trajectory once for each snapshot returned, so after the cycle the
\* prediction mapping has exactly the ids of the confirmed-track mapping,
\* which are the ids of the tracks kept by the call that have at least 3
\* hits: no prediction for an unconfirmed or removed track, none missing for
\* a confirmed one.
C19_PredictionPerSnapshot ==
    [][frame' = frame + 1 =>
          /\ DOMAIN predictions' = DOMAIN tracked_objects'
          /\ DOMAIN predictions' =
                {tracks'[i].id : i \in {j \in DOMAIN tracks' :
                                            tracks'[j].hits >= min_hits}}
          /\ \A id \in DOMAIN predictions' :
                predictions'[id].status =
                    prediction_status(Len(lists'[tracked_objects'[id].history]))
      ]_vars

\* A cycle has returned a success prediction for a track for which the cycle
\* before returned insufficient_data.
C19_Witness ==
    /\ pc = "update_data"
    /\ \E id \in DOMAIN predictions :
          /\ predictions[id].status = "success"
          /\ id \in DOMAIN ui_predictions
          /\ ui_predictions[id].status = "insufficient_data"

\* The area two boxes share, 0 when they share at most an edge or a corner.
SharedArea(a, b) ==
    Max(0, Min(a[3], b[3]) - Max(a[1], b[1]))
        * Max(0, Min(a[4], b[4]) - Max(a[2], b[2]))

\* C17: for boxes a, b with x2 > x1 and y2 > y1, IoU(a, b) = IoU(b, a),
\* IoU(a, a) = 1, IoU(a, b) = 0 when the boxes share no area (boxes that only
\* touch included), and 0 <= IoU(a, b) <= 1.
C17_IouProperties ==
    (query.op = "calculate_iou" /\ query.done) =>
        /\ RatEq(query.iou, query.swapped)
        /\ RatEq(query.with_self, <<1, 1>>)
        /\ SharedArea(query.bbox1, query.bbox2) = 0 => RatEq(query.iou, <<0, 1>>)
        /\ SharedArea(query.bbox1, query.bbox2) > 0 => RatLess(<<0, 1>>, query.iou)
        /\ RatLeq(<<0, 1>>, query.iou)
        /\ RatLeq(query.iou, <<1, 1>>)
        /\ query.iou[2] > 0

\* The IoU of two boxes that touch along an edge has been computed.
C17_Witness ==
    /\ query.op = "calculate_iou"
    /\ query.done
    /\ query.bbox1[3] = query.bbox2[1]
    /\ query.bbox1[2] = query.bbox2[2]
    /\ query.bbox1[4] = query.bbox2[4]
    /\ query.iou = <<0, 1>>

\* An impact-point call has returned.
ImpactDone == query.op = "calculate_impact_point" /\ query.done

\* The position lies in the frame, and not on its right edge.
InsideFrame(position) ==
    /\ RatLeq(Int2Rat(0), position[1])
    /\ RatLess(position[1], Int2Rat(frame_width))
    /\ RatLeq(Int2Rat(0), position[2])
    /\ RatLeq(position[2], Int2Rat(frame_height))

\* The right-edge point at the height of the position, reached after
\* (1280 - x) / vx.
HitsRightEdge ==
    /\ RatEq(query.impact_point[1], Int2Rat(frame_width))
    /\ RatEq(query.impact_point[2], query.position[2])
    /\ query.time_to_impact[2] > 0
    /\ RatEq(query.time_to_impact,
             RatDiv(RatSub(Int2Rat(frame_width), query.position[1]),
                    query.velocity[1]))

\* C15 as stated: position (100, 100) with velocity (10, 0) gives the impact
\* point (1280, 100) and time-to-impact 118, and every position inside the
\* frame moving along +x only (vx > 0, vy = 0) gives (1280, y) and
\* (1280 - x) / vx.
C15_Original ==
    ImpactDone =>
        /\ (query.position = <<Int2Rat(100), Int2Rat(100)>>
               /\ query.velocity = <<Int2Rat(10), Int2Rat(0)>>) =>
              /\ query.impact_point = <<Int2Rat(1280), Int2Rat(100)>>
              /\ query.time_to_impact = Int2Rat(118)
        /\ (/\ InsideFrame(query.position)
            /\ RatLess(Int2Rat(0), query.velocity[1])
            /\ RatEq(query.velocity[2], Int2Rat(0))) => HitsRightEdge

\* C15, amended: the same, for vx above 1e-6 (a velocity of 1e-6 or less in
\* both components counts as no movement).
C15_RightEdge ==
    ImpactDone =>
        /\ (query.position = <<Int2Rat(100), Int2Rat(100)>>
               /\ query.velocity = <<Int2Rat(10), Int2Rat(0)>>) =>
              /\ query.impact_point = <<Int2Rat(1280), Int2Rat(100)>>
              /\ query.time_to_impact = Int2Rat(118)
        /\ (/\ InsideFrame(query.position)
            /\ RatLess(Eps, query.velocity[1])
            /\ RatEq(query.velocity[2], Int2Rat(0))) => HitsRightEdge

\* The call for position (100, 100) and velocity (10, 0) has returned.
C15_Witness ==
    /\ ImpactDone
    /\ query.position = <<Int2Rat(100), Int2Rat(100)>>
    /\ query.velocity = <<Int2Rat(10), Int2Rat(0)>>
    /\ query.time_to_impact = Int2Rat(118)

\* C16: for a velocity whose components are both below 1e-6 in magnitude,
\* (0, 0) included, the impact point is the position given and the
\* time-to-impact is positive infinity.
C16_NoMovement ==
    (/\ ImpactDone
     /\ RatLess(RatAbs(query.velocity[1]), Eps)
     /\ RatLess(RatAbs(query.velocity[2]), Eps)) =>
        /\ query.impact_point = query.position
        /\ query.time_to_impact = Infinity

\* A predict_trajectory call has returned.
PredictDone == query.op = "predict_trajectory" /\ query.done

\* C13: predict_trajectory returns the result {status: insufficient_data},
\* with no other field, for a snapshot whose history has fewer than 5
\* entries, and a result of status success for one with 5 or more.
C13_InsufficientOrSuccess ==
    PredictDone =>
        IF Len(query.track.history) < 5
        THEN /\ DOMAIN query.result = {"status"}
             /\ query.result.status = "insufficient_data"
        ELSE /\ query.result.status = "success"
             /\ "trajectory" \in DOMAIN query.result

\* The call for a history of exactly 5 entries has returned success, with a
\* forecast of 50 points.
C13_Witness ==
    /\ PredictDone
    /\ Len(query.track.history) = 5
    /\ query.result.status = "success"
    /\ Len(query.result.trajectory) = 50

\* A _combine_predictions call has returned for two forecasts of status
\* success whose confidences are not both 0.
CombinedDone ==
    /\ query.op = "combine_predictions"
    /\ query.done
    /\ query.linear_pred.status = "success"
    /\ query.kalman_pred.status = "success"
    /\ RatAdd(query.linear_pred.confidence, query.kalman_pred.confidence)[1] # 0

\* The normalized weight of the linear forecast is strictly the larger.
LinearWeighsMore ==
    LET total == RatAdd(query.linear_pred.confidence,
                        query.kalman_pred.confidence)
    IN  RatLess(RatDiv(query.kalman_pred.confidence, total),
                RatDiv(query.linear_pred.confidence, total))

\* C14: in the combined prediction impact_point and time_to_impact are both
\* those of the linear forecast when its normalized weight is strictly the
\* larger, and both those of the constant-velocity forecast otherwise, a tie
\* included.
C14_ImpactFromOneForecast ==
    CombinedDone =>
        /\ query.result.method = "combined"
        /\ IF LinearWeighsMore
           THEN /\ query.result.impact_point = query.linear_pred.impact_point
                /\ query.result.time_to_impact
                      = query.linear_pred.time_to_impact
           ELSE /\ query.result.impact_point = query.kalman_pred.impact_point
                /\ query.result.time_to_impact
                      = query.kalman_pred.time_to_impact

\* Two forecasts of equal confidence and different impact points and times
\* have been combined.
C14_Witness ==
    /\ CombinedDone
    /\ query.linear_pred.confidence = query.kalman_pred.confidence
    /\ query.linear_pred.impact_point # query.kalman_pred.impact_point
    /\ query.linear_pred.time_to_impact # query.kalman_pred.time_to_impact
    /\ query.result.impact_point = query.kalman_pred.impact_point

\* The linear forecast predict_trajectory computes for a snapshot.
LinearOf(track) ==
    linear_prediction([i \in DOMAIN track.history |-> track.history[i].position],
                      [i \in DOMAIN track.history |-> track.history[i].timestamp])

\* C18: for a track of constant velocity (10, 0) with at least 5 history
\* points on that line, the confidence of the linear forecast is 1 (at least
\* 0.99) and its trajectory is, point for point, that of the
\* constant-velocity forecast.
C18_LinearMatchesConstantVelocity ==
    (/\ PredictDone
     /\ Len(query.track.history) >= 5
     /\ query.track.history = HistoryOnLine(Len(query.track.history), <<10, 0>>)
     /\ query.track.velocity = <<Int2Rat(10), Int2Rat(0)>>) =>
        /\ RatLeq(<<99, 100>>, LinearOf(query.track).confidence)
        /\ LinearOf(query.track).trajectory
              = kalman_prediction(query.track).trajectory

\* C21: hit_streak is never reset.  In every update call a matched track's
\* hit_streak grows by exactly 1 and an unmatched track's hit_streak stays as
\* it was, so it never decreases, and after the call hit_streak = hits for
\* every track, also for one that missed frames between its matches.
C21_HitStreakNeverReset ==
    [][frame' = frame + 1 =>
          /\ \A j \in DOMAIN tracks : \A i \in DOMAIN tracks' :
                tracks'[i].id = tracks[j].id =>
                    /\ tracks'[i].hit_streak >= tracks[j].hit_streak
                    /\ tracks'[i].hit_streak =
                          IF \E p \in call'.matched_tracks : p[1] = j
                          THEN tracks[j].hit_streak + 1
                          ELSE tracks[j].hit_streak
          /\ \A i \in DOMAIN tracks' : tracks'[i].hit_streak = tracks'[i].hits
      ]_vars

\* A track that missed at least two frames since its creation has just been
\* matched, and its streak counts every match.
C21_Witness ==
    \E i \in DOMAIN tracks :
        /\ tracks[i].time_since_update = 0
        /\ tracks[i].hits >= 3
        /\ tracks[i].age >= tracks[i].hits + 1
        /\ tracks[i].hit_streak = tracks[i].hits
        /\ \E p \in call.matched_tracks : p[1] = i

\* C22: after n successful updates the history of a track holds exactly the
\* centers of the most recent min(n, 30) matched detections, in the order
\* they arrived, the newest at the end: every update appends, and an update
\* of a full history drops its first entry.
C22_HistoryIsFifo ==
    query.op = "Track.update" =>
        LET n == Len(query.arrived)
            m == IF n < 30 THEN n ELSE 30
        IN  /\ Len(query.history) = m
            /\ \A i \in 1..m :
                  query.history[i].position = query.arrived[n - m + i]

\* After 32 updates with different centers the history starts with the
\* third center that arrived.
C22_Witness ==
    /\ query.op = "Track.update"
    /\ Len(query.arrived) = 32
    /\ query.history[1].position = query.arrived[3]
    /\ query.arrived[3] # query.arrived[1]
    /\ query.history[30].position = query.arrived[32]

\* Filter states a track could be in instead of its own: standing far away
\* and moving, and updated.
OtherFilters ==
    {KalmanFilter_init(<<500, 500, 3, -2>>),
     [state |-> Filtered, covariance |-> Filtered]}

\* The sets of matched pairs the association can return.
MatchedOutcomes(dets, predicted_tracks) ==
    {a.matched_tracks : a \in associate_detections_to_tracks(dets, predicted_tracks)}

\* C23: the predict phase of an update call leaves the bbox of every track
\* as it was last observed, and the matched pairs the association can return
\* are the same when every track is given another filter state (position,
\* velocity) before the call: they depend on the bboxes alone.
C23_AssociationByLastBbox ==
    [][frame' = frame + 1 =>
          /\ \A j \in DOMAIN tracks :
                call'.predicted_tracks[j].bbox = tracks[j].bbox
          /\ call'.matched_tracks
                \in MatchedOutcomes(call'.detections, call'.predicted_tracks)
          /\ \A other \in OtherFilters :
                MatchedOutcomes(call'.detections,
                                [t \in DOMAIN tracks |->
                                    Track_predict([tracks[t] EXCEPT
                                                      !.kalman = other])])
                    = MatchedOutcomes(call'.detections, call'.predicted_tracks)
      ]_vars

\* A call has matched a track whose filter had only been predicted, next to
\* a track whose filter had been updated before.
C23_Witness ==
    /\ Len(call.predicted_tracks) = 2
    /\ call.matched_tracks # {}
    /\ \E t \in DOMAIN call.predicted_tracks :
          /\ call.predicted_tracks[t].kalman.state # Filtered
          /\ \E p \in call.matched_tracks : p[1] = t
    /\ \E t \in DOMAIN call.predicted_tracks :
          call.predicted_tracks[t].kalman.state = Filtered

\* The crossings of the four edges the claim keeps: an edge is considered
\* only when the velocity points at it, and its crossing is kept only when
\* the other coordinate lies in the frame.  Each is <<x, y, t>>.
EdgeCrossings(position, velocity) ==
    LET x == position[1]
        y == position[2]
        vx == velocity[1]
        vy == velocity[2]
        zero == Int2Rat(0)
        width == Int2Rat(frame_width)
        height == Int2Rat(frame_height)
        OnX(edge) == LET t == RatDiv(RatSub(edge, x), vx)
                     IN  <<edge, RatAdd(y, RatMul(vy, t)), t>>
        OnY(edge) == LET t == RatDiv(RatSub(edge, y), vy)
                     IN  <<RatAdd(x, RatMul(vx, t)), edge, t>>
        considered ==
            {OnX(zero) : e \in {1} \cap {IF RatLess(vx, zero) THEN 1 ELSE 0}}
              \cup {OnX(width) :
                       e \in {1} \cap {IF RatLess(zero, vx) THEN 1 ELSE 0}}
              \cup {OnY(zero) :
                       e \in {1} \cap {IF RatLess(vy, zero) THEN 1 ELSE 0}}
              \cup {OnY(height) :
                       e \in {1} \cap {IF RatLess(zero, vy) THEN 1 ELSE 0}}
    IN  {c \in considered :
            /\ RatLeq(zero, c[1]) /\ RatLeq(c[1], width)
            /\ RatLeq(zero, c[2]) /\ RatLeq(c[2], height)}

\* The kept crossings with the smallest strictly positive time.
EarliestCrossings(position, velocity) ==
    LET ahead == {c \in EdgeCrossings(position, velocity) :
                     RatLess(Int2Rat(0), c[3])}
    IN  {c \in ahead : \A d \in ahead : RatLeq(c[3], d[3])}

\* The velocity is not negligible: not both components below 1e-6.
Moving(velocity) ==
    ~(RatLess(RatAbs(velocity[1]), Eps) /\ RatLess(RatAbs(velocity[2]), Eps))

\* position + 2.0 * velocity
Extrapolated(position, velocity) ==
    <<RatAdd(position[1], RatMul(velocity[1], Int2Rat(2))),
      RatAdd(position[2], RatMul(velocity[2], Int2Rat(2)))>>

\* Fractions are kept in lowest terms: equal points are equal pairs.
SamePoint(p, q) == p = q

\* C24: for a velocity that is not negligible the impact point is the kept
\* crossing (edge in the direction of motion, other coordinate inside the
\* frame) with the smallest strictly positive time, and position + 2.0 *
\* velocity when no kept crossing has a positive time.
C24_EarliestCrossingOrExtrapolation ==
    (ImpactDone /\ Moving(query.velocity)) =>
        LET earliest == EarliestCrossings(query.position, query.velocity)
        IN  IF earliest # {}
            THEN \A c \in earliest :
                    SamePoint(query.impact_point, <<c[1], c[2]>>)
            ELSE SamePoint(query.impact_point,
                           Extrapolated(query.position, query.velocity))

\* From (640, 100) with velocity (10, 10) the right edge would be crossed
\* at height 740, outside the frame, so the bottom edge at (1260, 720) is
\* the impact point.
C24_Witness ==
    /\ ImpactDone
    /\ query.position = <<Int2Rat(640), Int2Rat(100)>>
    /\ query.velocity = <<Int2Rat(10), Int2Rat(10)>>
    /\ query.impact_point = <<Int2Rat(1260), Int2Rat(720)>>
    /\ Cardinality(EdgeCrossings(query.position, query.velocity)) = 1

\* A position on the right edge moving right: no crossing lies ahead and
\* the impact point is extrapolated.
C24_WitnessExtrapolated ==
    /\ ImpactDone
    /\ query.position = <<Int2Rat(1280), Int2Rat(100)>>
    /\ query.velocity = <<Int2Rat(10), Int2Rat(0)>>
    /\ query.impact_point = <<Int2Rat(1300), Int2Rat(100)>>

\* A call of _calculate_time_to_impact has returned, alone or after
\* _calculate_impact_point.
TimeDone ==
    /\ query.op \in {"calculate_time_to_impact", "calculate_impact_point"}
    /\ query.done

\* C25: the time-to-impact is the displacement to the impact point along
\* the axis with the larger |velocity| component, the y axis when the two
\* are equal, divided by that component; when that component is not above
\* 1e-6 in magnitude it is the Euclidean displacement divided by the speed;
\* when the speed is not above 1e-6 it is infinity.
C25_TimeAlongLargerAxis ==
    TimeDone =>
        LET axis == IF RatEq(RatAbs(query.velocity[1]),
                             RatAbs(query.velocity[2]))
                    THEN 2
                    ELSE IF RatLess(RatAbs(query.velocity[2]),
                                    RatAbs(query.velocity[1]))
                         THEN 1 ELSE 2
            displacement == <<RatSub(query.impact_point[1], query.position[1]),
                              RatSub(query.impact_point[2], query.position[2])>>
        IN  IF RatLess(Eps, RatAbs(query.velocity[axis]))
            THEN query.time_to_impact
                    = RatDiv(displacement[axis], query.velocity[axis])
            ELSE IF SpeedAboveEps(query.velocity)
                 THEN query.time_to_impact
                         = DistanceOverSpeed(displacement[1], displacement[2],
                                             query.velocity)
                 ELSE query.time_to_impact = Infinity

\* Components of equal magnitude and an impact point level with the
\* position: the y displacement, 0, decides, not the x displacement.
C25_Witness ==
    /\ query.op = "calculate_time_to_impact"
    /\ query.done
    /\ query.position = <<Int2Rat(100), Int2Rat(100)>>
    /\ query.velocity = <<Int2Rat(10), Int2Rat(10)>>
    /\ query.impact_point = <<Int2Rat(640), Int2Rat(100)>>
    /\ query.time_to_impact = Int2Rat(0)

\* The point lies on an edge of the frame.
OnBoundary(point) ==
    LET zero == Int2Rat(0)
        width == Int2Rat(frame_width)
        height == Int2Rat(frame_height)
    IN  /\ RatLeq(zero, point[1]) /\ RatLeq(point[1], width)
        /\ RatLeq(zero, point[2]) /\ RatLeq(point[2], height)
        /\ \/ point[1] = zero \/ point[1] = width
           \/ point[2] = zero \/ point[2] = height

\* The time is not negative; infinity is not.
NotNegative(time) == time = Infinity \/ (time[2] > 0 /\ time[1] >= 0)

\* C30: the time-to-impact computed for the impact point returned is never
\* negative: it is infinity for a negligible velocity, the strictly
\* positive crossing time of the chosen edge when a crossing is chosen, and
\* 2 for the extrapolation; a chosen crossing lies on the frame boundary.
C30_TimeToImpactNeverNegative ==
    ImpactDone =>
        /\ NotNegative(query.time_to_impact)
        /\ IF ~Moving(query.velocity)
           THEN query.time_to_impact = Infinity
           ELSE LET earliest ==
                        EarliestCrossings(query.position, query.velocity)
                IN  IF earliest # {}
                    THEN /\ OnBoundary(query.impact_point)
                         /\ \A c \in earliest :
                               /\ query.time_to_impact = c[3]
                               /\ RatLess(Int2Rat(0), c[3])
                    ELSE query.time_to_impact = Int2Rat(ExtrapolationTime)

\* A _combine_predictions call has returned.
CombineDone == query.op = "combine_predictions" /\ query.done

\* C26: _combine_predictions returns the constant-velocity forecast as it
\* was given when the linear forecast has no success, the linear forecast
\* as it was given when the constant-velocity forecast has no success, and
\* the constant-velocity forecast as it was given when both confidences are
\* 0; it returns a result of method combined exactly when both have success
\* and the confidences are not both 0.
C26_FusionFallsBackUnmodified ==
    CombineDone =>
        LET both == /\ query.linear_pred.status = "success"
                    /\ query.kalman_pred.status = "success"
            positive ==
                both /\ ~(/\ query.linear_pred.confidence = Int2Rat(0)
                          /\ query.kalman_pred.confidence = Int2Rat(0))
        IN  /\ query.linear_pred.status # "success" =>
                  query.result = query.kalman_pred
            /\ (/\ query.linear_pred.status = "success"
                /\ query.kalman_pred.status # "success") =>
                  query.result = query.linear_pred
            /\ (both /\ ~positive) => query.result = query.kalman_pred
            /\ positive <=> (/\ "method" \in DOMAIN query.result
                             /\ query.result.method = "combined")

\* Two forecasts of status success and confidence 0, with different impact
\* points, were given, and the constant-velocity forecast came back.
C26_Witness ==
    /\ CombineDone
    /\ query.linear_pred.status = "success"
    /\ query.kalman_pred.status = "success"
    /\ query.linear_pred.confidence = Int2Rat(0)
    /\ query.kalman_pred.confidence = Int2Rat(0)
    /\ query.linear_pred.impact_point # query.kalman_pred.impact_point
    /\ query.result = query.kalman_pred
    /\ query.result.method = "kalman"

\* The linear forecast had no success and the constant-velocity forecast
\* came back.
C26_WitnessUnavailable ==
    /\ CombineDone
    /\ query.linear_pred.status = "insufficient_data"
    /\ query.kalman_pred.status = "success"
    /\ query.result = query.kalman_pred

\* C28: every result of predict_trajectory is either {status:
\* insufficient_data} or a result of status success and method combined;
\* the methods linear and kalman are never returned.
C28_OnlyCombinedOrInsufficient ==
    PredictDone =>
        \/ query.result = [status |-> "insufficient_data"]
        \/ /\ query.result.status = "success"
           /\ query.result.method = "combined"

\* A history of at least 5 points on a horizontal line: the linear forecast
\* has confidence 0, and the result is still tagged combined, with the
\* confidence of the constant-velocity forecast.
C28_Witness ==
    /\ PredictDone
    /\ Len(query.track.history) >= 5
    /\ LinearOf(query.track).status = "success"
    /\ LinearOf(query.track).confidence = Int2Rat(0)
    /\ query.result.method = "combined"
    /\ query.result.confidence = KalmanConfidence

\* C27: the creating detection is not recorded: in every state the history
\* of every track has min(hits - 1, 30) entries.
C27_HistoryIsHitsMinusOne ==
    \A i \in DOMAIN tracks :
        Len(lists[tracks[i].history]) = Min(tracks[i].hits - 1, HistoryCap)

\* C27, the consequence: after every update call a confirmed track with 3
\* to 5 hits has an insufficient_data prediction and one with 6 or more a
\* success prediction, and a track's prediction is a success for the first
\* time in the call in which its hits go from 5 to 6.
C27_FirstSuccessAtSixHits ==
    [][frame' = frame + 1 =>
          \A i \in DOMAIN tracks' :
              LET id == tracks'[i].id
              IN  /\ tracks'[i].hits >= min_hits <=> id \in DOMAIN predictions'
                  /\ id \in DOMAIN predictions' =>
                        /\ tracks'[i].hits <= 5 =>
                              predictions'[id].status = "insufficient_data"
                        /\ tracks'[i].hits >= 6 =>
                              predictions'[id].status = "success"
                        /\ (/\ predictions'[id].status = "success"
                            /\ \/ id \notin DOMAIN predictions
                               \/ predictions[id].status # "success") =>
                              /\ tracks'[i].hits = 6
                              /\ \E j \in DOMAIN tracks :
                                    /\ tracks[j].id = id
                                    /\ tracks[j].hits = 5
      ]_vars

\* C27, both parts.
C27_HistoryAndFirstSuccess ==
    []C27_HistoryIsHitsMinusOne /\ C27_FirstSuccessAtSixHits

\* A track has just reached 6 hits, its history has 5 entries, and its
\* prediction is a success after an insufficient_data prediction in the
\* cycle before.
C27_Witness ==
    /\ pc = "update_data"
    /\ \E i \in DOMAIN tracks :
          /\ tracks[i].hits = 6
          /\ tracks[i].time_since_update = 0
          /\ Len(lists[tracks[i].history]) = 5
          /\ predictions[tracks[i].id].status = "success"
          /\ tracks[i].id \in DOMAIN ui_predictions
          /\ ui_predictions[tracks[i].id].status = "insufficient_data"

\* C29: once max_age = 30 update calls in a row have carried no detection
\* the active set is empty and the output is the empty mapping, and they
\* stay so with every further such call; in a call without detections the
\* number of active tracks does not grow.
C29_QuietCallsEmptyTheTracker ==
    /\ [](quiet_calls >= max_age =>
             /\ tracks = <<>>
             /\ DOMAIN tracked_objects = {}
             /\ DOMAIN predictions = {})
    /\ [][(frame' = frame + 1 /\ call'.detections = <<>>) =>
             /\ Len(tracks') <= Len(tracks)
             /\ {tracks'[i].id : i \in DOMAIN tracks'}
                   \subseteq {tracks[i].id : i \in DOMAIN tracks}
             /\ tracks = <<>> =>
                   (tracks' = <<>> /\ DOMAIN tracked_objects' = {})
         ]_vars

\* The 30th call in a row without detections has removed the last track,
\* a confirmed one that the call before still returned.
C29_Witness ==
    /\ pc = "update_data"
    /\ quiet_calls = max_age
    /\ tracks = <<>>
    /\ DOMAIN tracked_objects = {}
    /\ DOMAIN ui_tracked_objects # {}

====
